---- MODULE Spec2Model ----
(***************************************************************************)
(* Topology store of the hub agent: Store.Write replicates a locally       *)
(* computed state.Cluster to the platform with a version-conditional JSON  *)
(* merge patch (pkg/topology/store/store.go), through the platform client  *)
(* (pkg/platform/client.go).                                               *)
(***************************************************************************)
EXTENDS Integers, Sequences, FiniteSets, TLC

(***************************************************************************)
(* Bounds of the model.                                                    *)
(***************************************************************************)
\* The annotation of the service takes one of MaxValues values.
MaxValues == 1
\* The platform hands out the version tokens 1..MaxVersion.
MaxVersion == 2
\* Upper bound on the retries one Write gets from its backoff policy.
MaxRetry == 3
\* Upper bound on the Update calls made on one IngressUpdater.
MaxUpdates == 2
\* Upper bound on the ingresses the lister returns to one update.
MaxIngresses == 1

(***************************************************************************)
(* JSON documents.  json.Marshal is deterministic (struct fields in        *)
(* declaration order, map keys sorted), so two encodings are byte-equal    *)
(* exactly when the documents are equal; a document is modelled as a tree. *)
(***************************************************************************)
JNull == [t |-> "null"]
JNum(n) == [t |-> "num", v |-> n]
JStr(s) == [t |-> "str", v |-> s]
JArr(s) == [t |-> "arr", v |-> s]
JObj(f) == [t |-> "obj", v |-> f]

\* A Go []byte that was never assigned.
NilBytes == [t |-> "nil"]

\* Go maps and slices whose nil and empty values encode differently.
NilMap == [isNil |-> TRUE, m |-> [k \in {} |-> 0]]
GoMap(f) == [isNil |-> FALSE, m |-> f]
NilSlice == [isNil |-> TRUE, s |-> <<>>]
GoSlice(s) == [isNil |-> FALSE, s |-> s]
EmptyStrMap == [k \in {} |-> ""]

\* The empty version token: "" in the store, 0 in the client.
NoVersion == 0
\* The versions the platform returns with a 200 response.  The platform
\* numbers its revisions and never answers a fetch or a patch with the
\* empty token.
Versions == 1..MaxVersion

(***************************************************************************)
(* state.Cluster values and their encoding.                                *)
(***************************************************************************)
ServiceKey == "service-1@ns"

Service(annotations) ==
    [Name |-> "service-1", Namespace |-> "ns", ClusterID |-> "",
     Type |-> "ClusterIP", Selector |-> NilMap, Apps |-> <<>>,
     Annotations |-> annotations, ExternalIPs |-> <<>>,
     ExternalPorts |-> <<8080>>]

Overview(count) ==
    [IngressCount |-> 0, ServiceCount |-> count,
     IngressControllerTypes |-> NilSlice]

Cluster(count, services) ==
    [ID |-> "", Overview |-> Overview(count), Namespaces |-> NilSlice,
     Apps |-> NilMap, Ingresses |-> NilMap, IngressRoutes |-> NilMap,
     Services |-> services, IngressControllers |-> NilMap,
     AccessControlPolicies |-> NilMap, TLSOptions |-> NilMap,
     TraefikServiceNames |-> NilMap]

\* Keeps the fields of an object that omitempty does not drop.
Fields(all, omitted) ==
    [k \in (DOMAIN all) \ omitted |-> all[k]]

MarshalStrSlice(s) ==
    IF s.isNil THEN JNull ELSE JArr([i \in DOMAIN s.s |-> JStr(s.s[i])])

MarshalStrMap(m) ==
    IF m.isNil THEN JNull ELSE JObj([k \in DOMAIN m.m |-> JStr(m.m[k])])

MarshalOverview(o) ==
    JObj(("ingressCount" :> JNum(o.IngressCount))
      @@ ("serviceCount" :> JNum(o.ServiceCount))
      @@ ("ingressControllerTypes" :> MarshalStrSlice(o.IngressControllerTypes)))

MarshalService(s) ==
    LET all == ("name" :> JStr(s.Name))
            @@ ("namespace" :> JStr(s.Namespace))
            @@ ("clusterId" :> JStr(s.ClusterID))
            @@ ("type" :> JStr(s.Type))
            @@ ("selector" :> MarshalStrMap(s.Selector))
            @@ ("apps" :> JArr([i \in DOMAIN s.Apps |-> JStr(s.Apps[i])]))
            @@ ("annotations" :>
                  JObj([k \in DOMAIN s.Annotations |-> JStr(s.Annotations[k])]))
            @@ ("externalIPs" :>
                  JArr([i \in DOMAIN s.ExternalIPs |-> JStr(s.ExternalIPs[i])]))
            @@ ("externalPorts" :>
                  JArr([i \in DOMAIN s.ExternalPorts |-> JNum(s.ExternalPorts[i])]))
        omitted == (IF Len(s.Apps) = 0 THEN {"apps"} ELSE {})
             \cup (IF DOMAIN s.Annotations = {} THEN {"annotations"} ELSE {})
             \cup (IF Len(s.ExternalIPs) = 0 THEN {"externalIPs"} ELSE {})
             \cup (IF Len(s.ExternalPorts) = 0 THEN {"externalPorts"} ELSE {})
    IN  JObj(Fields(all, omitted))

MarshalServices(m) ==
    IF m.isNil THEN JNull
    ELSE JObj([k \in DOMAIN m.m |-> MarshalService(m.m[k])])

\* state.Ingress: the embedded ResourceMeta and IngressMeta are flattened;
\* the members the model keeps empty all carry omitempty.
Ingress(name) ==
    [Kind |-> "", Group |-> "", Name |-> name, Namespace |-> "ns",
     ClusterID |-> "", ControllerType |-> ""]

MarshalIngress(i) ==
    LET all == ("kind" :> JStr(i.Kind))
            @@ ("group" :> JStr(i.Group))
            @@ ("name" :> JStr(i.Name))
            @@ ("namespace" :> JStr(i.Namespace))
            @@ ("clusterId" :> JStr(i.ClusterID))
            @@ ("controllerType" :> JStr(i.ControllerType))
        omitted == IF i.ControllerType = "" THEN {"controllerType"} ELSE {}
    IN  JObj(Fields(all, omitted))

MarshalIngresses(m) ==
    IF m.isNil THEN JNull
    ELSE JObj([k \in DOMAIN m.m |-> MarshalIngress(m.m[k])])

\* The maps of the cluster that this model keeps nil.
MarshalNilable(m) ==
    IF m.isNil THEN JNull ELSE JObj([k \in DOMAIN m.m |-> JNull])

\* json.Marshal(state.Cluster)
Marshal(c) ==
    JObj(("ID" :> JStr(c.ID))
      @@ ("Overview" :> MarshalOverview(c.Overview))
      @@ ("Namespaces" :> MarshalStrSlice(c.Namespaces))
      @@ ("Apps" :> MarshalNilable(c.Apps))
      @@ ("Ingresses" :> MarshalIngresses(c.Ingresses))
      @@ ("IngressRoutes" :> MarshalNilable(c.IngressRoutes))
      @@ ("Services" :> MarshalServices(c.Services))
      @@ ("IngressControllers" :> MarshalNilable(c.IngressControllers))
      @@ ("AccessControlPolicies" :> MarshalNilable(c.AccessControlPolicies))
      @@ ("TLSOptions" :> MarshalNilable(c.TLSOptions))
      @@ ("TraefikServiceNames" :> MarshalStrMap(c.TraefikServiceNames)))

\* json.Unmarshal into state.Cluster: a member that is missing or null
\* leaves the zero value of its field.
Member(obj, k) == IF k \in DOMAIN obj THEN obj[k] ELSE JNull

UnmarshalStrSlice(j) ==
    IF j.t = "arr" THEN GoSlice([i \in DOMAIN j.v |-> j.v[i].v]) ELSE NilSlice

UnmarshalStrMap(j) ==
    IF j.t = "obj" THEN GoMap([k \in DOMAIN j.v |-> j.v[k].v]) ELSE NilMap

UnmarshalStr(j) == IF j.t = "str" THEN j.v ELSE ""
UnmarshalInt(j) == IF j.t = "num" THEN j.v ELSE 0
UnmarshalSeq(j) == IF j.t = "arr" THEN [i \in DOMAIN j.v |-> j.v[i].v] ELSE <<>>

UnmarshalOverview(j) ==
    LET o == IF j.t = "obj" THEN j.v ELSE [k \in {} |-> JNull]
    IN  [IngressCount |-> UnmarshalInt(Member(o, "ingressCount")),
         ServiceCount |-> UnmarshalInt(Member(o, "serviceCount")),
         IngressControllerTypes |->
            UnmarshalStrSlice(Member(o, "ingressControllerTypes"))]

UnmarshalService(j) ==
    LET o == IF j.t = "obj" THEN j.v ELSE [k \in {} |-> JNull]
        annotations == Member(o, "annotations")
    IN  [Name |-> UnmarshalStr(Member(o, "name")),
         Namespace |-> UnmarshalStr(Member(o, "namespace")),
         ClusterID |-> UnmarshalStr(Member(o, "clusterId")),
         Type |-> UnmarshalStr(Member(o, "type")),
         Selector |-> UnmarshalStrMap(Member(o, "selector")),
         Apps |-> UnmarshalSeq(Member(o, "apps")),
         Annotations |->
            IF annotations.t = "obj"
            THEN [k \in DOMAIN annotations.v |-> annotations.v[k].v]
            ELSE EmptyStrMap,
         ExternalIPs |-> UnmarshalSeq(Member(o, "externalIPs")),
         ExternalPorts |-> UnmarshalSeq(Member(o, "externalPorts"))]

UnmarshalServices(j) ==
    IF j.t = "obj" THEN GoMap([k \in DOMAIN j.v |-> UnmarshalService(j.v[k])])
    ELSE NilMap

UnmarshalIngress(j) ==
    LET o == IF j.t = "obj" THEN j.v ELSE [k \in {} |-> JNull]
    IN  [Kind |-> UnmarshalStr(Member(o, "kind")),
         Group |-> UnmarshalStr(Member(o, "group")),
         Name |-> UnmarshalStr(Member(o, "name")),
         Namespace |-> UnmarshalStr(Member(o, "namespace")),
         ClusterID |-> UnmarshalStr(Member(o, "clusterId")),
         ControllerType |-> UnmarshalStr(Member(o, "controllerType"))]

UnmarshalIngresses(j) ==
    IF j.t = "obj" THEN GoMap([k \in DOMAIN j.v |-> UnmarshalIngress(j.v[k])])
    ELSE NilMap

UnmarshalNilable(j) ==
    IF j.t = "obj" THEN GoMap([k \in DOMAIN j.v |-> 0]) ELSE NilMap

\* json.Unmarshal(body, &state.Cluster)
Unmarshal(j) ==
    LET o == IF j.t = "obj" THEN j.v ELSE [k \in {} |-> JNull]
    IN  [ID |-> UnmarshalStr(Member(o, "ID")),
         Overview |-> UnmarshalOverview(Member(o, "Overview")),
         Namespaces |-> UnmarshalStrSlice(Member(o, "Namespaces")),
         Apps |-> UnmarshalNilable(Member(o, "Apps")),
         Ingresses |-> UnmarshalIngresses(Member(o, "Ingresses")),
         IngressRoutes |-> UnmarshalNilable(Member(o, "IngressRoutes")),
         Services |-> UnmarshalServices(Member(o, "Services")),
         IngressControllers |-> UnmarshalNilable(Member(o, "IngressControllers")),
         AccessControlPolicies |->
            UnmarshalNilable(Member(o, "AccessControlPolicies")),
         TLSOptions |-> UnmarshalNilable(Member(o, "TLSOptions")),
         TraefikServiceNames |-> UnmarshalStrMap(Member(o, "TraefikServiceNames"))]

\* The snapshots and fetched topologies of the model.
AnnotationValue(i) == "value-" \o ToString(i)
AnnotationChoices ==
    {EmptyStrMap} \cup {"key" :> AnnotationValue(i) : i \in 1..MaxValues}
ServicesChoices ==
    {NilMap} \cup
    {GoMap(ServiceKey :> Service(a)) : a \in AnnotationChoices}
\* Overview.ServiceCount is the number of services of the snapshot.
Clusters ==
    {Cluster(IF s.isNil THEN 0 ELSE Cardinality(DOMAIN s.m), s) : s \in ServicesChoices}

\* Snapshots with nil, empty and filled maps and slices, for buildPatch:
\* the service of the store's tests with its annotation absent, set and
\* changed, its ports absent, set, extended and changed, and next to it the
\* ingress of the tests.
SnapshotAnnotations ==
    {EmptyStrMap, "key" :> "value", "key" :> "new-value"}
SelectorChoices == {NilMap, GoMap(EmptyStrMap), GoMap("app" :> "web")}
PortsChoices == {<<>>, <<8080>>, <<8080, 8081>>, <<8082>>}
NamespacesChoices == {NilSlice, GoSlice(<<>>), GoSlice(<<"ns">>)}
IngressKey == "ingress-1@ns"
IngressesChoices == {NilMap, GoMap(IngressKey :> Ingress("ingress-1"))}
ServiceWith(annotations, selector, ports) ==
    [Service(annotations) EXCEPT !.Selector = selector, !.ExternalPorts = ports]
SnapshotServices ==
    {NilMap, GoMap([k \in {} |-> Service(EmptyStrMap)])} \cup
    {GoMap(ServiceKey :> ServiceWith(a, s, p)) :
        a \in SnapshotAnnotations, s \in SelectorChoices, p \in PortsChoices}
Snapshots ==
    {[Cluster(IF s.isNil THEN 0 ELSE Cardinality(DOMAIN s.m), s)
        EXCEPT !.Namespaces = n, !.Ingresses = i] :
        s \in SnapshotServices, n \in NamespacesChoices,
        i \in IngressesChoices}

(***************************************************************************)
(* jsonpatch.CreateMergePatch: the RFC 7396 difference of two objects.     *)
(***************************************************************************)
\* A difference that does not record the keys the new document dropped.
RECURSIVE getDiffNoDelete(_, _)
getDiffNoDelete(a, b) ==
    LET differs(k) ==
            IF k \notin DOMAIN a THEN TRUE
            ELSE IF a[k].t # b[k].t THEN TRUE
            ELSE IF a[k].t = "obj" THEN DOMAIN getDiffNoDelete(a[k].v, b[k].v) # {}
            ELSE IF a[k].t = "null" THEN FALSE
            ELSE a[k].v # b[k].v
    IN  [k \in {k \in DOMAIN b : differs(k)} |->
            IF k \in DOMAIN a /\ a[k].t = "obj" /\ b[k].t = "obj"
            THEN JObj(getDiffNoDelete(a[k].v, b[k].v))
            ELSE b[k]]

\* A difference that records the dropped keys of the two documents only,
\* not those of the objects they hold.
getDiffTopDelete(a, b) ==
    LET nested == getDiffNoDelete(a, b)
    IN  [k \in (DOMAIN nested) \cup ((DOMAIN a) \ (DOMAIN b)) |->
            IF k \in DOMAIN nested THEN nested[k] ELSE JNull]

\* A difference that carries, of an array that changed, only the elements
\* the old array did not hold.
RECURSIVE getDiffElementwise(_, _)
getDiffElementwise(a, b) ==
    LET differs(k) ==
            IF k \notin DOMAIN a THEN TRUE
            ELSE IF a[k].t # b[k].t THEN TRUE
            ELSE IF a[k].t = "obj"
                 THEN DOMAIN getDiffElementwise(a[k].v, b[k].v) # {}
            ELSE IF a[k].t = "null" THEN FALSE
            ELSE a[k].v # b[k].v
        keys == {k \in DOMAIN b : differs(k)} \cup ((DOMAIN a) \ (DOMAIN b))
        added(k) ==
            SelectSeq(b[k].v, LAMBDA e : \A i \in DOMAIN a[k].v : a[k].v[i] # e)
    IN  [k \in keys |->
            IF k \notin DOMAIN b THEN JNull
            ELSE IF k \in DOMAIN a /\ a[k].t = "obj" /\ b[k].t = "obj"
                 THEN JObj(getDiffElementwise(a[k].v, b[k].v))
            ELSE IF k \in DOMAIN a /\ a[k].t = "arr" /\ b[k].t = "arr"
                 THEN JArr(added(k))
            ELSE b[k]]

\* A difference that copies an object that changed as a whole.
getDiffWholeObject(a, b) ==
    LET changed == {k \in DOMAIN b : k \notin DOMAIN a \/ a[k] # b[k]}
    IN  [k \in changed \cup ((DOMAIN a) \ (DOMAIN b)) |->
            IF k \notin DOMAIN b THEN JNull ELSE b[k]]

RECURSIVE getDiff(_, _)
getDiff(a, b) ==
    LET differs(k) ==
            IF k \notin DOMAIN a THEN TRUE
            ELSE IF a[k].t # b[k].t THEN TRUE
            ELSE IF a[k].t = "obj" THEN DOMAIN getDiff(a[k].v, b[k].v) # {}
            ELSE IF a[k].t = "null" THEN FALSE
            ELSE a[k].v # b[k].v
        keys == {k \in DOMAIN b : differs(k)} \cup ((DOMAIN a) \ (DOMAIN b))
    IN  [k \in keys |->
            IF k \notin DOMAIN b THEN JNull
            ELSE IF k \in DOMAIN a /\ a[k].t = "obj" /\ b[k].t = "obj"
                 THEN JObj(getDiff(a[k].v, b[k].v))
            ELSE b[k]]

\* Fails on a document that is not a JSON object.
CreateMergePatch(original, modified) ==
    IF original.t # "obj" \/ modified.t # "obj"
    THEN [err |-> TRUE, patch |-> NilBytes]
    ELSE [err |-> FALSE, patch |-> JObj(getDiff(original.v, modified.v))]

\* buildPatch without the byte comparison: equal documents give the patch {}.
buildPatchNoCompare(last, st) ==
    LET new == Marshal(st)
        mp == CreateMergePatch(last, new)
    IN  IF mp.err
        THEN [err |-> TRUE, patch |-> NilBytes, newTopology |-> NilBytes]
        ELSE [err |-> FALSE, patch |-> mp.patch, newTopology |-> new]

\* buildPatch that looks for an empty result of CreateMergePatch instead of
\* comparing the documents.
buildPatchCompareResult(last, st) ==
    LET new == Marshal(st)
        mp == CreateMergePatch(last, new)
    IN  IF mp.err
        THEN [err |-> TRUE, patch |-> NilBytes, newTopology |-> NilBytes]
        ELSE IF mp.patch = NilBytes
        THEN [err |-> FALSE, patch |-> NilBytes, newTopology |-> new]
        ELSE [err |-> FALSE, patch |-> mp.patch, newTopology |-> new]

\* Store.buildPatch: a nil patch means that there is nothing to send.
buildPatch(last, st) ==
    LET new == Marshal(st)
        mp == CreateMergePatch(last, new)
    IN  IF new = last
        THEN [err |-> FALSE, patch |-> NilBytes, newTopology |-> new]
        ELSE IF mp.err
        THEN [err |-> TRUE, patch |-> NilBytes, newTopology |-> NilBytes]
        ELSE [err |-> FALSE, patch |-> mp.patch, newTopology |-> new]

(***************************************************************************)
(* The store and one Write call at a time (callers serialize Write).       *)
(***************************************************************************)
VARIABLES
    lastTopology,       \* Store.lastTopology
    lastKnownVersion,   \* Store.lastKnownVersion
    pc,                 \* position of the running Write, "idle" between calls
    st,                 \* the snapshot passed to the running Write
    newTopology,        \* local of the retried operation
    retries,            \* backoffs taken by the running Write
    result,             \* "none", "running", "ok" or "err": outcome of Write
    cause,              \* which return statement ended the last Write
    calls,              \* platform calls issued by the running/last Write
    sent,               \* arguments of the last PatchTopology call, the
                        \* baseline of its patch, and whether the patch
                        \* differs from the one this Write sent before
    fetched,            \* what FetchTopology returned to this run of the
                        \* operation
    exchange,           \* outcome of the HTTP PATCH exchange of this run of
                        \* the operation
    reply,              \* what PatchTopology returned to this run of the
                        \* operation
    start,              \* cached state when the running/last Write began
    prev                \* outcome of the Write before the running/last one

\* What lies outside the store: the context of the running Write, the
\* platform, one call of the client, and one evaluation of buildPatch.
VARIABLES
    ctx,                \* the context passed to the running Write
    server,             \* the topology the platform stores and its revision
    http,               \* one FetchTopology or PatchTopology call of Client
    diff,               \* arguments and result of one buildPatch evaluation
    policies,           \* the AccessControlPolicy resources of the cluster
                        \* and the ACPs the Watcher fetched last
    twin,               \* the topology of a second platform, written by a
                        \* store that keeps no cache
    oidc,               \* the Config handed to the last Validate call, the
                        \* Config it left behind and the error it returned
    updater             \* the IngressUpdater, its update runs and the
                        \* callers of Update

vars == <<lastTopology, lastKnownVersion, pc, st, newTopology, retries, result,
          cause, calls, sent, fetched, exchange, reply, start, prev,
          ctx, server, http, diff, policies, twin, oidc, updater>>
outside == <<ctx, server, http, diff, policies, twin, oidc, updater>>

store == <<lastTopology, lastKnownVersion>>
history == <<calls, sent, fetched, start, prev>>
patched == <<exchange, reply>>

NoHeader == <<>>
NoCall == [patch |-> NilBytes, version |-> NoVersion, base |-> NilBytes,
           fresh |-> FALSE, header |-> NoHeader, resent |-> FALSE]
\* The record of a PatchTopology call once the call has returned: what was
\* on the wire and how it compared with the call before is dropped.
Answered(call) ==
    [call EXCEPT !.fresh = FALSE, !.header = NoHeader, !.resent = FALSE]
NoFetch == [topology |-> NilBytes, version |-> NoVersion]
NoExchange == [kind |-> "none", status |-> 0, version |-> NoVersion,
               body |-> "none", encoding |-> "identity"]
NoError == [isErr |-> FALSE, api |-> FALSE, StatusCode |-> 0,
            Retryable |-> FALSE, Message |-> ""]
NoReply == [version |-> NoVersion, err |-> NoError]
\* A finished Write as the next one remembers it: its outcome and, when it
\* succeeded, its snapshot and whether it had to retry; in front of the
\* platform of SpecServer also the version the store held after the last
\* Write that succeeded.
NoWrite == [result |-> "none", cause |-> "none", st |-> NilBytes,
            retried |-> FALSE, version |-> NoVersion]

\* context.Background, and a context whose Done channel is closed; calls
\* counts the platform calls the Write had issued when it was cancelled.
Background == [done |-> FALSE, calls |-> 0]
Cancelled(n) == [done |-> TRUE, calls |-> n]

NoAccept == [from |-> NoVersion, to |-> NoVersion]
NoServer == [version |-> NoVersion, topology |-> NilBytes, accepted |-> NoAccept]
NoRequest == [method |-> "none", header |-> <<>>, sends |-> 0,
              wire |-> [kind |-> "none"], returned |-> FALSE,
              result |-> [version |-> 0]]
NoDiff == [prev |-> NilBytes, st |-> NilBytes, last |-> NilBytes,
           err |-> FALSE, patch |-> NilBytes]
\* The names of the access control policies, and a cluster without any.
ACPNames == {"acp-1", "acp-2"}
NoPolicy == [found |-> FALSE]
NoPolicies == [byName |-> [n \in ACPNames |-> NoPolicy],
               acps |-> [n \in {} |-> NoPolicy],
               tick |-> "none", calls |-> [n \in ACPNames |-> "none"],
               done |-> {}, ctxDone |-> FALSE, running |-> TRUE]

\* New: an empty cache.
New ==
    /\ lastTopology = NilBytes
    /\ lastKnownVersion = NoVersion
    /\ pc = "idle"
    /\ st = NilBytes
    /\ newTopology = NilBytes
    /\ retries = 0
    /\ result = "none"
    /\ cause = "none"
    /\ calls = <<>>
    /\ sent = NoCall
    /\ fetched = NoFetch
    /\ exchange = NoExchange
    /\ reply = NoReply
    /\ start = [topology |-> NilBytes, version |-> NoVersion]
    /\ prev = NoWrite

\* No Config has been validated yet.
NoValidation == [called |-> FALSE]

\* NewIngressUpdater: no update is registered, the channel has no sender;
\* Run is in its loop and its context is live.
PolNames == {"pol-1", "pol-2"}
NewIngressUpdater ==
    [running |-> TRUE, ctxDone |-> FALSE,
     cancelUpd |-> [n \in PolNames |-> 0], runs |-> <<>>, callers |-> <<>>]

\* A store in front of a platform that answers freely.
Init ==
    /\ New
    /\ ctx = Background
    /\ server = NoServer
    /\ http = NoRequest
    /\ diff = NoDiff
    /\ policies = NoPolicies
    /\ oidc = NoValidation
    /\ updater = NewIngressUpdater
    /\ twin = NilBytes

\* Write returns: RetryNotify hands the error (or nil) to the caller.
Return(res, why) ==
    /\ pc' = "idle"
    /\ result' = res
    /\ cause' = why

\* A Write that goes on with the backoff as the Write before it left it.
WriteCallKeepsBackOff(c) ==
    /\ pc = "idle"
    /\ pc' = "attempt"
    /\ st' = c
    /\ result' = "running"
    /\ cause' = "none"
    /\ calls' = <<>>
    /\ sent' = NoCall
    /\ fetched' = NoFetch
    /\ exchange' = NoExchange
    /\ reply' = NoReply
    /\ start' = [topology |-> lastTopology, version |-> lastKnownVersion]
    /\ prev' = [result |-> result, cause |-> cause,
                st |-> IF result = "ok" THEN st ELSE NilBytes,
                retried |-> result = "ok" /\ retries > 0,
                version |-> IF server = NoServer THEN NoVersion
                            ELSE IF result = "ok" THEN lastKnownVersion
                            ELSE prev.version]
    /\ ctx' = Background
    /\ UNCHANGED <<lastTopology, lastKnownVersion, newTopology, retries>>

\* Store.Write is called: RetryNotify resets the backoff and runs the
\* operation for the first time.
WriteCall(c) ==
    /\ pc = "idle"
    /\ pc' = "attempt"
    /\ st' = c
    /\ retries' = 0
    /\ result' = "running"
    /\ cause' = "none"
    /\ calls' = <<>>
    /\ sent' = NoCall
    /\ fetched' = NoFetch
    /\ exchange' = NoExchange
    /\ reply' = NoReply
    /\ start' = [topology |-> lastTopology, version |-> lastKnownVersion]
    /\ prev' = [result |-> result, cause |-> cause,
                st |-> IF result = "ok" THEN st ELSE NilBytes,
                retried |-> result = "ok" /\ retries > 0,
                version |-> IF server = NoServer THEN NoVersion
                            ELSE IF result = "ok" THEN lastKnownVersion
                            ELSE prev.version]
    /\ ctx' = Background
    /\ UNCHANGED <<lastTopology, lastKnownVersion, newTopology>>

Write(c) ==
    /\ WriteCall(c)
    /\ UNCHANGED <<server, http, diff, policies, twin, oidc, updater>>

\* A store that fetches only while it holds no baseline.
NeedFetchNoBaseline(version) == lastTopology = NilBytes

\* A store that fetches at the start of every attempt.
NeedFetchAlways(version) == TRUE

\* The operation fetches when the store holds no version.
NeedFetch(version) == version = NoVersion

FetchCall ==
    /\ pc = "attempt"
    /\ NeedFetch(lastKnownVersion)
    /\ pc' = "fetching"
    /\ calls' = Append(calls, "fetch")
    /\ UNCHANGED <<store, st, newTopology, retries, result, cause, sent,
                   fetched, patched, start, prev>>
    /\ UNCHANGED outside

\* A fetch whose version is not stored.
FetchedStateDropVersion(topology, version) ==
    [lastTopology |-> Marshal(topology), lastKnownVersion |-> NoVersion]

\* A fetch that keeps a baseline the store already holds.
FetchedStateKeepBaseline(topology, version) ==
    [lastTopology |-> IF lastTopology = NilBytes THEN Marshal(topology)
                      ELSE lastTopology,
     lastKnownVersion |-> version]

\* A fetch that stores the version and, for the baseline, the encoding of
\* an empty cluster.
FetchedStateEmptyBaseline(topology, version) ==
    [lastTopology |-> Marshal(Cluster(0, NilMap)), lastKnownVersion |-> version]

\* What a successful fetch leaves in the store.
FetchedState(topology, version) ==
    [lastTopology |-> Marshal(topology), lastKnownVersion |-> version]

\* FetchTopology returns a topology and its version.
FetchOK(topology, version) ==
    /\ pc = "fetching"
    /\ ~ctx.done
    /\ lastTopology' = FetchedState(topology, version).lastTopology
    /\ lastKnownVersion' = FetchedState(topology, version).lastKnownVersion
    /\ fetched' = [topology |-> Marshal(topology), version |-> version]
    /\ pc' = "build"
    /\ UNCHANGED <<st, newTopology, retries, result, cause, calls, sent,
                   patched, start, prev>>
    /\ UNCHANGED outside

\* A failed fetch that is handed to the backoff like a retryable patch error.
FetchErrRetried ==
    /\ pc = "fetching"
    /\ pc' = "backoff"
    /\ UNCHANGED <<store, st, newTopology, retries, result, cause, history,
                   patched>>
    /\ UNCHANGED outside

\* FetchTopology fails (transport error, non-200, undecodable body): the
\* operation returns a permanent error.
FetchErr ==
    /\ pc = "fetching"
    /\ Return("err", "fetch")
    /\ UNCHANGED <<store, st, newTopology, retries, history, patched>>
    /\ UNCHANGED outside

\* strconv.FormatInt for a version, which is never negative: the digits of n
\* in the base, most significant first.
RECURSIVE FormatInt(_, _)
FormatInt(n, base) ==
    IF n < base THEN <<n>>
    ELSE Append(FormatInt(n \div base, base), n % base)

\* A header that carries the version in binary digits.
LastKnownVersionHeaderBinary(version) == FormatInt(version, 2)

\* The Last-Known-Version header of the PATCH request.
LastKnownVersionHeader(version) == FormatInt(version, 10)

\* The operation diffs the snapshot against the cached topology and either
\* fails, returns because nothing changed, or calls PatchTopology.
BuildPatch ==
    /\ \/ pc = "build"
       \/ pc = "attempt" /\ ~NeedFetch(lastKnownVersion)
    /\ \E bp \in {buildPatch(lastTopology, st)} :
           IF bp.err
           THEN /\ Return("err", "build")
                /\ UNCHANGED <<newTopology, calls, sent>>
           ELSE IF bp.patch = NilBytes
           THEN /\ Return("ok", "nodiff")
                /\ UNCHANGED <<newTopology, calls, sent>>
           ELSE /\ pc' = "patching"
                /\ newTopology' = bp.newTopology
                /\ calls' = Append(calls, "patch")
                /\ sent' = [patch |-> bp.patch, version |-> lastKnownVersion,
                            base |-> lastTopology,
                            fresh |-> bp.patch # sent.patch,
                            header |-> LastKnownVersionHeader(lastKnownVersion),
                            resent |-> lastKnownVersion = sent.version]
                /\ UNCHANGED <<result, cause>>
    /\ UNCHANGED <<store, st, retries, fetched, patched, start, prev>>
    /\ UNCHANGED outside

(***************************************************************************)
(* Client.PatchTopology: one HTTP exchange and what the client returns.    *)
(***************************************************************************)
StatusOK == 200
\* The error statuses httpClient.Do hands back; it retries 429 and 5xx itself
\* and reports them as an error when they persist.
ErrorStatuses == {400, 409, 422}

\* A response body is a JSON object with a version (and a topology), a JSON
\* object with an error member, one that has a StatusCode member as well, or
\* text that is no JSON.
Bodies == {"version", "error", "code", "text"}
ErrorText == "conflict"
RawText == "Bad Gateway"
BodyCode == 418

\* What httpClient.Do returned when it returned an error.
DoError ==
    [kind |-> "transport", status |-> 0, version |-> NoVersion,
     body |-> "none", encoding |-> "identity"]

\* The outcomes of httpClient.Do for the PATCH request of a Write: an error,
\* a 200 with the new version, an error status with an error body.
PatchExchanges ==
    {DoError}
    \cup {[kind |-> "response", status |-> StatusOK, version |-> v,
           body |-> "version", encoding |-> "identity"] : v \in Versions}
    \cup {[kind |-> "response", status |-> c, version |-> NoVersion,
           body |-> "error", encoding |-> "identity"] : c \in ErrorStatuses}

\* The request is bound to the context of the Write: once the context is
\* done, Do returns the error of the context and no response.
DoHonoursContext(x) == ctx.done => x.kind = "transport"

\* APIError.Retryable: 400 and 422 are final, the other statuses are not.
Retryable(status) == status \notin {400, 422}

PlainError ==
    [isErr |-> TRUE, api |-> FALSE, StatusCode |-> 0, Retryable |-> FALSE,
     Message |-> ""]
APIError(status) ==
    [isErr |-> TRUE, api |-> TRUE, StatusCode |-> status,
     Retryable |-> Retryable(status), Message |-> ""]

\* The bytes PatchTopology reads: the transport undoes the gzip encoding it
\* asked for itself, any other encoding leaves bytes that are no JSON.
PatchBody(x) == IF x.encoding \in {"identity", "gzip"} THEN x.body ELSE "text"

\* An APIError whose message is empty when the body is no JSON.
UnmarshalAPIErrorNoFallback(status, body) ==
    [APIError(status) EXCEPT
        !.StatusCode = IF body = "code" THEN BodyCode ELSE status,
        !.Message = IF body \in {"error", "code"} THEN ErrorText ELSE ""]

\* apiErr := APIError{StatusCode: status}; json.Unmarshal(body, &apiErr),
\* with the raw body as message when that fails.  The body's members error
\* and StatusCode set the fields Message and StatusCode.
UnmarshalAPIError(status, body) ==
    [APIError(status) EXCEPT
        !.StatusCode = IF body = "code" THEN BodyCode ELSE status,
        !.Message = IF body \in {"error", "code"} THEN ErrorText
                    ELSE IF body = "text" THEN RawText
                    ELSE ""]

\* A transport error reported as a retryable APIError.
TransportErrorRetryable ==
    [isErr |-> TRUE, api |-> TRUE, StatusCode |-> 0, Retryable |-> TRUE,
     Message |-> ""]

\* The error PatchTopology returns when httpClient.Do fails.
TransportError == PlainError

\* Client.PatchTopology after httpClient.Do returned x.
PatchTopology(x) ==
    IF x.kind = "transport"
    THEN [version |-> NoVersion, err |-> TransportError]
    ELSE IF x.status # StatusOK
    THEN [version |-> NoVersion, err |-> UnmarshalAPIError(x.status, PatchBody(x))]
    ELSE IF PatchBody(x) = "text"
    THEN [version |-> NoVersion, err |-> PlainError]
    ELSE [version |-> IF PatchBody(x) = "version" THEN x.version ELSE NoVersion,
          err |-> NoError]

\* Every APIError is retried.
IsPermanentNonAPI(err) == ~err.api

\* Only a non-retryable APIError is permanent.
IsPermanentAPIOnly(err) == err.api /\ ~err.Retryable

\* errors.As(err, &apiErr) fails or the APIError is not retryable.
IsPermanent(err) == ~err.api \/ ~err.Retryable

\* The returned version is ignored and the old one kept.
StoredVersionKeepOld(old, version) == old

\* The returned version is stored only when the call succeeded.
StoredVersionOnSuccess(old, version) ==
    IF version = NoVersion THEN old ELSE version

\* The returned version is dropped and the store is left without one.
StoredVersionForgotten(old, version) == NoVersion

\* The store's version after a PatchTopology call that returned version:
\* the call's result is assigned whether or not the call failed.
StoredVersion(old, version) == version

\* The cache is not refreshed by a successful patch.
CachedTopologyKeepOld(old, new) == old

\* A store that drops its baseline when a patch succeeded.
CachedTopologyDropped(old, new) == NilBytes

\* The cached topology after a successful patch.
CachedTopology(old, new) == new

\* PatchTopology succeeds: the snapshot becomes the cached topology.
PatchOK(x) ==
    /\ pc = "patching"
    /\ DoHonoursContext(x)
    /\ ~PatchTopology(x).err.isErr
    /\ exchange' = x
    /\ reply' = PatchTopology(x)
    /\ lastKnownVersion' = StoredVersion(lastKnownVersion, PatchTopology(x).version)
    /\ lastTopology' = CachedTopology(lastTopology, newTopology)
    /\ Return("ok", "patched")
    /\ sent' = Answered(sent)
    /\ UNCHANGED <<st, newTopology, retries, calls, fetched, start, prev>>
    /\ UNCHANGED outside

\* PatchTopology fails: the version it returns is stored all the same, the
\* cached topology is kept, and the error is permanent or handed to the
\* backoff.
PatchErr(x) ==
    /\ pc = "patching"
    /\ DoHonoursContext(x)
    /\ PatchTopology(x).err.isErr
    /\ exchange' = x
    /\ reply' = PatchTopology(x)
    /\ lastKnownVersion' = StoredVersion(lastKnownVersion, PatchTopology(x).version)
    /\ IF IsPermanent(PatchTopology(x).err)
       THEN Return("err", IF PatchTopology(x).err.api THEN "fatal" ELSE "plain")
       ELSE /\ pc' = "backoff"
            /\ UNCHANGED <<result, cause>>
    /\ sent' = Answered(sent)
    /\ UNCHANGED <<lastTopology, st, newTopology, retries, calls, fetched,
                   start, prev>>
    /\ UNCHANGED outside

\* A retry that diffs against the cached topology again without fetching.
NextBackOffRebuilds ==
    /\ pc = "backoff"
    /\ \/ /\ retries < MaxRetry
          /\ retries' = retries + 1
          /\ pc' = "build"
          /\ fetched' = NoFetch
          /\ exchange' = NoExchange
          /\ reply' = NoReply
          /\ UNCHANGED <<result, cause>>
       \/ /\ Return("err", "stop")
          /\ UNCHANGED <<retries, fetched, patched>>
    /\ UNCHANGED <<store, st, newTopology, calls, sent, start, prev>>
    /\ UNCHANGED outside

\* A backoff without MaxElapsedTime: NextBackOff never returns Stop.
NextBackOffForever ==
    /\ pc = "backoff"
    /\ retries' = retries + 1
    /\ pc' = "attempt"
    /\ fetched' = NoFetch
    /\ exchange' = NoExchange
    /\ reply' = NoReply
    /\ UNCHANGED <<result, cause>>
    /\ UNCHANGED <<store, st, newTopology, calls, sent, start, prev>>
    /\ UNCHANGED outside

\* RetryNotify asks the backoff for the next delay.  The policy stops once
\* its MaxElapsedTime has passed, which the time spent in the calls decides:
\* it may stop at any retry and stops at the latest after MaxRetry of them.
\* Otherwise RetryNotify notifies, sleeps and runs the operation again.
NextBackOff ==
    /\ pc = "backoff"
    /\ \/ /\ retries < MaxRetry
          /\ retries' = retries + 1
          /\ pc' = "attempt"
          /\ fetched' = NoFetch
          /\ exchange' = NoExchange
          /\ reply' = NoReply
          /\ UNCHANGED <<result, cause>>
       \/ /\ Return("err", "stop")
          /\ UNCHANGED <<retries, fetched, patched>>
    /\ UNCHANGED <<store, st, newTopology, calls, sent, start, prev>>
    /\ UNCHANGED outside

Next ==
    \/ \E c \in Clusters : Write(c)
    \/ FetchCall
    \/ \E c \in Clusters, v \in Versions : FetchOK(c, v)
    \/ FetchErr
    \/ BuildPatch
    \/ \E x \in PatchExchanges : PatchOK(x)
    \/ \E x \in PatchExchanges : PatchErr(x)
    \/ NextBackOff

Spec == Init /\ [][Next]_vars

\* The running Write takes its next step: every call it makes returns and
\* every sleep of the backoff ends.
Running ==
    \/ FetchCall
    \/ FetchErr
    \/ \E c \in Clusters, v \in Versions : FetchOK(c, v)
    \/ NextBackOff
    \/ \E x \in PatchExchanges : PatchErr(x)
    \/ \E x \in PatchExchanges : PatchOK(x)
    \/ BuildPatch

\* A store between two Write calls: new, or holding the baseline of an
\* earlier Write, with the version that came with it or, after a failed
\* patch, without a version.
TerminateInit ==
    /\ \/ /\ lastTopology = NilBytes
          /\ lastKnownVersion = NoVersion
       \/ \E c \in Clusters, v \in Versions \cup {NoVersion} :
             /\ lastTopology = Marshal(c)
             /\ lastKnownVersion = v
    /\ pc = "idle"
    /\ st = NilBytes
    /\ newTopology = NilBytes
    /\ retries = 0
    /\ result = "none"
    /\ cause = "none"
    /\ calls = <<>>
    /\ sent = NoCall
    /\ fetched = NoFetch
    /\ exchange = NoExchange
    /\ reply = NoReply
    /\ start = [topology |-> NilBytes, version |-> NoVersion]
    /\ prev = NoWrite
    /\ ctx = Background
    /\ server = NoServer
    /\ http = NoRequest
    /\ diff = NoDiff
    /\ policies = NoPolicies
    /\ twin = NilBytes
    /\ oidc = NoValidation
    /\ updater = NewIngressUpdater

\* One Write call on that store.
TerminateWrite(c) ==
    /\ result = "none"
    /\ Write(c)

TerminateNext ==
    \/ \E c \in Clusters : TerminateWrite(c)
    \/ FetchCall
    \/ \E c \in Clusters, v \in Versions : FetchOK(c, v)
    \/ FetchErr
    \/ BuildPatch
    \/ \E x \in PatchExchanges : PatchOK(x)
    \/ \E x \in PatchExchanges : PatchErr(x)
    \/ NextBackOff

\* The store with Writes that are never left waiting forever.
SpecTerminate == TerminateInit /\ [][TerminateNext]_vars /\ WF_vars(Running)

\* A build failure that is noticed only after a PatchTopology call.
BuildPatchFailsAfterPatch ==
    /\ \/ pc = "build"
       \/ pc = "attempt" /\ ~NeedFetch(lastKnownVersion)
    /\ Return("err", "build")
    /\ calls' = Append(calls, "patch")
    /\ UNCHANGED <<newTopology, sent>>
    /\ UNCHANGED <<store, st, retries, fetched, patched, start, prev>>
    /\ UNCHANGED outside

\* buildPatch returns an error: json.Marshal or CreateMergePatch failed.
\* The operation returns it as a permanent error.  Neither call fails on
\* the encodings above, so the failure is an outcome of the call that this
\* action adds.
BuildPatchFails ==
    /\ \/ pc = "build"
       \/ pc = "attempt" /\ ~NeedFetch(lastKnownVersion)
    /\ Return("err", "build")
    /\ UNCHANGED <<newTopology, calls, sent>>
    /\ UNCHANGED <<store, st, retries, fetched, patched, start, prev>>
    /\ UNCHANGED outside

BuildNext ==
    \/ Next
    \/ BuildPatchFails

\* The store with an encoder and a merge-patch library that may fail.
SpecBuild == Init /\ [][BuildNext]_vars

(***************************************************************************)
(* Client: one FetchTopology or PatchTopology call over the HTTP client    *)
(* NewClient builds, retryablehttp's client with RetryMax retries.         *)
(***************************************************************************)
RetryMax == 4

WireStatuses == {200, 400, 409, 422, 429, 500, 501}
Encodings == {"identity", "gzip", "corrupt", "br"}

\* What one round trip ends with: an error of the connection, which is
\* temporary or not, or a response.
WireErrors == {[kind |-> "error", temporary |-> b] : b \in BOOLEAN}
PatchResponses ==
    {[kind |-> "response", status |-> s, version |-> v, body |-> "version",
      encoding |-> e] : s \in WireStatuses, v \in Versions, e \in Encodings}
    \cup {[kind |-> "response", status |-> s, version |-> NoVersion, body |-> b,
           encoding |-> e] :
             s \in WireStatuses, b \in Bodies \ {"version"}, e \in Encodings}
FetchResponses ==
    {[kind |-> "response", status |-> s, version |-> v, body |-> "version",
      encoding |-> e, topology |-> Marshal(c)] :
        s \in WireStatuses, v \in Versions, e \in Encodings, c \in Clusters}
    \cup {[kind |-> "response", status |-> s, version |-> NoVersion, body |-> b,
           encoding |-> e, topology |-> NilBytes] :
             s \in WireStatuses, b \in Bodies \ {"version"}, e \in Encodings}

\* retryablehttp's default policy: a temporary connection error, a 429 and
\* a 5xx other than 501 are tried again, whatever the method.
CheckRetry(w) ==
    IF w.kind = "error" THEN w.temporary
    ELSE w.status = 429 \/ (w.status >= 500 /\ w.status # 501)

\* What Do returns when the loop ends with w: the response when the policy
\* accepts it, else an error and no response.
DoResult(w) ==
    IF w.kind = "response" /\ ~CheckRetry(w) THEN w ELSE DoError

\* state.Cluster{}
ZeroCluster == Unmarshal(JNull)

\* ungzipBody: the encodings it reads.
Readable(encoding) == encoding \in {"identity", "gzip"}

FetchFailed(err) == [topology |-> ZeroCluster, version |-> NoVersion, err |-> err]

\* Client.FetchTopology after httpClient.Do returned x.
FetchTopology(x) ==
    IF x.kind = "transport" THEN FetchFailed(PlainError)
    ELSE IF ~Readable(x.encoding) THEN FetchFailed(PlainError)
    ELSE IF x.status # StatusOK
    THEN FetchFailed(UnmarshalAPIError(x.status, x.body))
    ELSE IF x.body = "text" THEN FetchFailed(PlainError)
    ELSE IF x.body = "version"
    THEN [topology |-> Unmarshal(x.topology), version |-> x.version,
          err |-> NoError]
    ELSE [topology |-> ZeroCluster, version |-> NoVersion, err |-> NoError]

PatchTopologyCall(version) ==
    /\ http = NoRequest
    /\ http' = [NoRequest EXCEPT !.method = "PATCH",
                                 !.header = LastKnownVersionHeader(version)]
    /\ UNCHANGED <<lastTopology, lastKnownVersion, pc, st, newTopology,
                   retries, result, cause, calls, sent, fetched, exchange,
                   reply, start, prev, ctx, server, diff, policies, twin, oidc, updater>>

FetchTopologyCall ==
    /\ http = NoRequest
    /\ http' = [NoRequest EXCEPT !.method = "GET"]
    /\ UNCHANGED <<lastTopology, lastKnownVersion, pc, st, newTopology,
                   retries, result, cause, calls, sent, fetched, exchange,
                   reply, start, prev, ctx, server, diff, policies, twin, oidc, updater>>

\* One pass of the loop of Do: the request is sent and answered by w; the
\* loop goes on while the policy asks for a retry and retries remain, else
\* Do returns and the client builds its result.
RoundTrip(w) ==
    /\ http.method # "none"
    /\ ~http.returned
    /\ w \in WireErrors \cup
             (IF http.method = "PATCH" THEN PatchResponses ELSE FetchResponses)
    /\ IF CheckRetry(w) /\ http.sends < RetryMax
       THEN http' = [http EXCEPT !.sends = @ + 1, !.wire = w]
       ELSE http' = [http EXCEPT
                       !.sends = @ + 1, !.wire = w, !.returned = TRUE,
                       !.result = IF http.method = "PATCH"
                                  THEN PatchTopology(DoResult(w))
                                  ELSE FetchTopology(DoResult(w))]
    /\ UNCHANGED <<lastTopology, lastKnownVersion, pc, st, newTopology,
                   retries, result, cause, calls, sent, fetched, exchange,
                   reply, start, prev, ctx, server, diff, policies, twin, oidc, updater>>

ClientNext ==
    \/ \E v \in Versions : PatchTopologyCall(v)
    \/ FetchTopologyCall
    \/ \E w \in WireErrors \cup PatchResponses \cup FetchResponses : RoundTrip(w)

SpecClient == Init /\ [][ClientNext]_vars

(***************************************************************************)
(* The platform: it stores one topology under a revision number that only  *)
(* grows.  It answers a fetch with both, accepts a patch whose              *)
(* Last-Known-Version is its revision, and refuses any other with 409.     *)
(* Other agents write to it as well.                                       *)
(***************************************************************************)
\* Revisions of the platform.
MaxRevision == 3

\* The platform reads the Last-Known-Version header as a decimal number.
RECURSIVE ParseInt(_)
ParseInt(digits) ==
    IF digits = <<>> THEN 0
    ELSE 10 * ParseInt(SubSeq(digits, 1, Len(digits) - 1)) + digits[Len(digits)]

\* RFC 7396: the platform applies a merge patch to the document it stores.
\* A member the patch sets to null is removed, an object is merged member
\* by member, anything else replaces the target.
RECURSIVE ApplyMergePatch(_, _)
ApplyMergePatch(target, patch) ==
    IF patch.t # "obj" THEN patch
    ELSE LET old == IF target.t = "obj" THEN target.v ELSE [k \in {} |-> JNull]
             kept == {k \in DOMAIN old :
                        k \notin DOMAIN patch.v \/ patch.v[k].t # "null"}
             added == {k \in DOMAIN patch.v : patch.v[k].t # "null"}
         IN  JObj([k \in kept \cup added |->
                    IF k \notin DOMAIN patch.v THEN old[k]
                    ELSE ApplyMergePatch(IF k \in DOMAIN old THEN old[k] ELSE JNull,
                                         patch.v[k])])

\* A new store in front of a platform that holds a topology.
Platform ==
    /\ New
    /\ ctx = Background
    /\ http = NoRequest
    /\ diff = NoDiff
    /\ policies = NoPolicies
    /\ oidc = NoValidation
    /\ updater = NewIngressUpdater
    /\ \E c \in Clusters :
          server = [version |-> 1, topology |-> Marshal(c), accepted |-> NoAccept]

ServerInit ==
    /\ Platform
    /\ twin = NilBytes

engine == <<lastTopology, lastKnownVersion, pc, st, newTopology, retries,
            result, cause, calls, sent, fetched, exchange, reply, start, prev>>

\* Another agent writes a topology.
OtherWriter(c) ==
    /\ server.version < MaxRevision
    /\ server' = [server EXCEPT !.version = @ + 1, !.topology = Marshal(c)]
    /\ UNCHANGED <<engine, ctx, http, diff, policies, twin, oidc, updater>>

\* The platform answers the fetch of the store.
Serve ==
    \E topology \in {Unmarshal(server.topology)} :
        FetchOK(topology, server.version)

\* The platform receives the patch of the store, finds its own revision in
\* the header and applies the patch.
Accept ==
    /\ pc = "patching"
    /\ ParseInt(sent.header) = server.version
    /\ server.version < MaxRevision
    /\ server' = [version |-> server.version + 1,
                  topology |-> ApplyMergePatch(server.topology, sent.patch),
                  accepted |-> [from |-> server.version,
                                to |-> server.version + 1]]
    /\ UNCHANGED <<engine, ctx, http, diff, policies, twin, oidc, updater>>

\* The answer to an accepted patch reaches the store.
Accepted ==
    /\ server.accepted.from = ParseInt(sent.header)
    /\ PatchOK([kind |-> "response", status |-> StatusOK,
                version |-> server.accepted.to, body |-> "version",
                encoding |-> "identity"])

\* The patch fails: the connection breaks (the platform may have applied the
\* patch all the same), the platform finds another revision than its own in
\* the header (409), or it rejects the patch (400, 422).
Refused(x) ==
    /\ \/ x.kind = "transport"
       \/ /\ x.kind = "response"
          /\ server.accepted.from # ParseInt(sent.header)
          /\ x.status = 409 <=> ParseInt(sent.header) # server.version
    /\ PatchErr(x)

ServerNext ==
    \/ \E c \in Clusters : Write(c)
    \/ FetchCall
    \/ Serve
    \/ FetchErr
    \/ BuildPatch
    \/ Accept
    \/ Accepted
    \/ \E x \in PatchExchanges : Refused(x)
    \/ NextBackOff
    \/ \E c \in Clusters : OtherWriter(c)

SpecServer == ServerInit /\ [][ServerNext]_vars

(***************************************************************************)
(* The store next to a store that keeps no cache and fetches at the start  *)
(* of every Write.  Each writes to a platform of its own; the two          *)
(* platforms start with the same topology, the two stores are given the    *)
(* same snapshots, and another agent writes the same topology to both      *)
(* platforms between two Writes.  The platforms fail a patch only for its  *)
(* version.                                                                *)
(***************************************************************************)
\* Write of the store without a cache, on a platform that nobody else
\* writes to in the meantime: it fetches, diffs the snapshot against what
\* it fetched and patches the difference, if any, at the version it
\* fetched; it returns nil.
StatelessWrite(topology, c) ==
    LET last == Marshal(Unmarshal(topology))
        bp == buildPatch(last, c)
    IN  IF bp.patch = NilBytes THEN topology
        ELSE ApplyMergePatch(topology, bp.patch)

TwinInit ==
    /\ Platform
    /\ twin = server.topology

TwinWrite(c) ==
    /\ WriteCall(c)
    /\ twin' = StatelessWrite(twin, c)
    /\ UNCHANGED <<server, http, diff, policies, oidc, updater>>

TwinOtherWriter(c) ==
    /\ pc = "idle"
    /\ server.version < MaxRevision
    /\ server' = [server EXCEPT !.version = @ + 1, !.topology = Marshal(c)]
    /\ twin' = Marshal(c)
    /\ UNCHANGED <<engine, ctx, http, diff, policies, oidc, updater>>

\* The platform finds another revision than its own in the header.
Conflict(x) ==
    /\ x.kind = "response"
    /\ x.status = 409
    /\ Refused(x)

TwinNext ==
    \/ \E c \in Clusters : TwinWrite(c)
    \/ FetchCall
    \/ Serve
    \/ BuildPatch
    \/ Accept
    \/ Accepted
    \/ \E x \in PatchExchanges : Conflict(x)
    \/ NextBackOff
    \/ \E c \in Clusters : TwinOtherWriter(c)

SpecTwin == TwinInit /\ [][TwinNext]_vars

(***************************************************************************)
(* The store in front of a platform that fails a patch only for its        *)
(* version, while other agents write.  Every call is answered and the      *)
(* retried operation runs on: the steps of a Write and the answers of the  *)
(* platform are weakly fair.  A Write and the other agents leave the       *)
(* platform a revision to accept the patch of the Write with.              *)
(***************************************************************************)
ConvergeWrite(c) ==
    /\ server.version < MaxRevision
    /\ Write(c)

InterposedWriter(c) ==
    /\ server.version + 1 < MaxRevision
    /\ OtherWriter(c)

\* The steps of a running Write and the answers of the platform.
Progress ==
    \/ FetchCall
    \/ Serve
    \/ BuildPatch
    \/ Accept
    \/ Accepted
    \/ \E x \in PatchExchanges : Conflict(x)
    \/ NextBackOff

ConvergeNext ==
    \/ \E c \in Clusters : ConvergeWrite(c)
    \/ FetchCall
    \/ Serve
    \/ BuildPatch
    \/ Accept
    \/ Accepted
    \/ \E x \in PatchExchanges : Conflict(x)
    \/ NextBackOff
    \/ \E c \in Clusters : InterposedWriter(c)

SpecConverge == ServerInit /\ [][ConvergeNext]_vars /\ WF_vars(Progress)

(***************************************************************************)
(* Cancellation: the caller closes the context of the running Write while  *)
(* it waits for FetchTopology, for PatchTopology or in the backoff.        *)
(***************************************************************************)
Cancel ==
    /\ pc \in {"fetching", "patching", "backoff"}
    /\ ~ctx.done
    /\ ctx' = Cancelled(Len(calls))
    /\ UNCHANGED <<lastTopology, lastKnownVersion, pc, st, newTopology,
                   retries, result, cause, calls, sent, fetched, exchange,
                   reply, start, prev, server, http, diff, policies, twin, oidc, updater>>

CancelNext ==
    \/ \E c \in Clusters : Write(c)
    \/ FetchCall
    \/ \E c \in Clusters, v \in Versions : FetchOK(c, v)
    \/ FetchErr
    \/ BuildPatch
    \/ \E x \in PatchExchanges : PatchOK(x)
    \/ \E x \in PatchExchanges : PatchErr(x)
    \/ NextBackOff
    \/ Cancel

SpecCancel == Init /\ [][CancelNext]_vars

(***************************************************************************)
(* Store.buildPatch on its own: the baseline is the encoding of one        *)
(* snapshot, the argument another.                                         *)
(***************************************************************************)
BuildPatchOf(p, n) ==
    /\ diff = NoDiff
    /\ LET bp == buildPatch(Marshal(p), n)
       IN  diff' = [prev |-> p, st |-> n, last |-> Marshal(p),
                    err |-> bp.err, patch |-> bp.patch]
    /\ UNCHANGED <<lastTopology, lastKnownVersion, pc, st, newTopology,
                   retries, result, cause, calls, sent, fetched, exchange,
                   reply, start, prev, ctx, server, http, policies, twin, oidc, updater>>

PatchNext ==
    /\ diff = NoDiff
    /\ \E p \in Snapshots, n \in Snapshots : BuildPatchOf(p, n)

SpecPatch == Init /\ [][PatchNext]_vars

(***************************************************************************)
(* Access control policies: every tick the Watcher of pkg/acp fetches the  *)
(* ACPs of the platform and creates, updates and deletes the               *)
(* AccessControlPolicy resources of the cluster to match them.             *)
(***************************************************************************)
\* A pointer to the configuration of one authentication method.
NilPtr == [isNil |-> TRUE, v |-> ""]
Ptr(v) == [isNil |-> FALSE, v |-> v]
Pointers == {NilPtr, Ptr("settings")}
ACPVersion == "version-1"

\* The ACPs the platform can return: nothing stops it from filling in more
\* than one method.
ACPs ==
    [Version : {ACPVersion, "version-2"}, OIDC : Pointers, JWT : Pointers,
     BasicAuth : Pointers]
\* The answers of GetACPs: the first ACP is any of them, the second one
\* holds JWT alone.
ACPLists ==
    {acps \in UNION {[names -> ACPs] : names \in SUBSET ACPNames} :
        "acp-2" \in DOMAIN acps =>
            /\ acps["acp-2"].OIDC.isNil
            /\ ~acps["acp-2"].JWT.isNil
            /\ acps["acp-2"].BasicAuth.isNil}

EmptySpec == [OIDC |-> NilPtr, JWT |-> NilPtr, BasicAuth |-> NilPtr]

\* A specification that copies every method the ACP fills in.
buildAccessControlPolicySpecAll(a) ==
    [OIDC |-> IF a.OIDC.isNil THEN NilPtr ELSE Ptr(a.OIDC.v),
     JWT |-> IF a.JWT.isNil THEN NilPtr ELSE Ptr(a.JWT.v),
     BasicAuth |-> IF a.BasicAuth.isNil THEN NilPtr ELSE Ptr(a.BasicAuth.v)]

buildAccessControlPolicySpec(a) ==
    IF ~a.OIDC.isNil THEN [EmptySpec EXCEPT !.OIDC = Ptr(a.OIDC.v)]
    ELSE IF ~a.JWT.isNil THEN [EmptySpec EXCEPT !.JWT = Ptr(a.JWT.v)]
    ELSE IF ~a.BasicAuth.isNil
         THEN [EmptySpec EXCEPT !.BasicAuth = Ptr(a.BasicAuth.v)]
    ELSE EmptySpec

\* An update for every policy whose version is not the one of its ACP.
needUpdateOnVersion(a, policy) ==
    \/ buildAccessControlPolicySpec(a) # policy.Spec
    \/ a.Version # policy.Version

needUpdate(a, policy) == buildAccessControlPolicySpec(a) # policy.Spec

\* createPolicy, and the update of a policy that was found.
Upserted(a) ==
    [found |-> TRUE, Spec |-> buildAccessControlPolicySpec(a),
     Version |-> a.Version]

\* The call one tick makes for the policy of a name: none for a policy
\* that is found with the specification of its ACP.
Call(acps, n) ==
    IF n \in DOMAIN acps
    THEN IF ~policies.byName[n].found THEN "create"
         ELSE IF needUpdate(acps[n], policies.byName[n]) THEN "update"
         ELSE "none"
    ELSE IF policies.byName[n].found THEN "delete" ELSE "none"

\* One tick of Watcher.Run: acps is the answer of GetACPs, done the names of
\* the policies whose create, update or delete call succeeds; a call that
\* fails is logged and leaves the resource as it is.
Run(acps, done) ==
    /\ policies.running
    /\ LET policy(n) == policies.byName[n]
           synced(n) ==
               IF n \notin DOMAIN acps THEN NoPolicy
               ELSE IF policy(n).found /\ ~needUpdate(acps[n], policy(n))
                    THEN policy(n)
               ELSE Upserted(acps[n])
       IN  policies' =
              [policies EXCEPT
                 !.byName = [n \in ACPNames |->
                               IF n \in done THEN synced(n) ELSE policy(n)],
                 !.acps = acps,
                 !.tick = "synced",
                 !.calls = [n \in ACPNames |-> Call(acps, n)],
                 !.done = done]
    /\ UNCHANGED <<engine, ctx, server, http, diff, twin, oidc, updater>>

\* A failed tick that goes on with no ACPs and cleans every policy.
RunFailedCleans(failed) ==
    /\ policies.running
    /\ policies' = [policies EXCEPT
                      !.byName = [n \in ACPNames |-> NoPolicy],
                      !.tick = failed,
                      !.calls = [n \in ACPNames |->
                                   IF policies.byName[n].found THEN "delete"
                                   ELSE "none"],
                      !.done = ACPNames]
    /\ UNCHANGED <<engine, ctx, server, http, diff, twin, oidc, updater>>

\* A tick on which GetACPs fails (failed = "fetch") or the listing of the
\* policies fails (failed = "list"): the error is logged and the loop goes
\* on with the next tick.
RunFailed(failed) ==
    /\ policies.running
    /\ policies' = [policies EXCEPT !.tick = failed,
                                    !.calls = [n \in ACPNames |-> "none"],
                                    !.done = {}]
    /\ UNCHANGED <<engine, ctx, server, http, diff, twin, oidc, updater>>

\* The context of Run is cancelled.
RunCancelled ==
    /\ ~policies.ctxDone
    /\ policies' = [policies EXCEPT !.ctxDone = TRUE]
    /\ UNCHANGED <<engine, ctx, server, http, diff, twin, oidc, updater>>

\* The context is done and the select takes that case: Run returns.  The
\* select may as well take a tick that is due.
RunStopped ==
    /\ policies.running
    /\ policies.ctxDone
    /\ policies' = [policies EXCEPT !.running = FALSE]
    /\ UNCHANGED <<engine, ctx, server, http, diff, twin, oidc, updater>>

PolicyNext ==
    \/ \E acps \in ACPLists, done \in SUBSET ACPNames : Run(acps, done)
    \/ \E failed \in {"fetch", "list"} : RunFailed(failed)
    \/ RunCancelled
    \/ RunStopped

SpecPolicy == Init /\ [][PolicyNext]_vars

\* state.AccessControlPolicy of a policy of the cluster, as the topology
\* holds it.
Method(spec) ==
    IF ~spec.JWT.isNil THEN "jwt"
    ELSE IF ~spec.BasicAuth.isNil THEN "basicAuth"
    ELSE ""
AccessControlPolicy(name, spec) ==
    [Name |-> name, Namespace |-> "", ClusterID |-> "",
     Method |-> Method(spec), JWT |-> spec.JWT, BasicAuth |-> spec.BasicAuth]

JBool(b) == [t |-> "bool", v |-> b]

MarshalAccessControlPolicy(p) ==
    LET all == ("name" :> JStr(p.Name))
            @@ ("namespace" :> JStr(p.Namespace))
            @@ ("clusterId" :> JStr(p.ClusterID))
            @@ ("method" :> JStr(p.Method))
            @@ ("jwt" :>
                  JObj(("signingSecretBase64Encoded" :> JBool(FALSE))
                    @@ ("claims" :> JStr(p.JWT.v))))
            @@ ("basicAuth" :> JObj("users" :> JStr(p.BasicAuth.v)))
        omitted == (IF p.JWT.isNil THEN {"jwt"} ELSE {})
             \cup (IF p.BasicAuth.isNil THEN {"basicAuth"} ELSE {})
    IN  JObj(Fields(all, omitted))

(***************************************************************************)
(* The OpenID Connect configuration (src/pkg/acp/oidc/http.go).            *)
(***************************************************************************)

\* A nil pointer to a value of the type of zero.
Nil(zero) == [isNil |-> TRUE, v |-> zero]

AuthStateCookie(secret) == [Secret |-> secret, Path |-> "", SameSite |-> ""]
AuthSession(secret) ==
    [Secret |-> secret, Path |-> "", SameSite |-> "", Refresh |-> Nil(FALSE)]

\* The configurations handed to Validate: StateCookie and Session are
\* pointers and may be nil, their secrets have 0, 15, 16, 24, 32 or 33 bytes.
Configs ==
    LET Strings == {"", "foo"}
        Secrets == {"", "123456789012345", "1234567890123456",
                    "123456789012345678901234",
                    "12345678901234567890123456789012",
                    "123456789012345678901234567890123"}
    IN
    [Issuer : Strings, ClientID : Strings, ClientSecret : Strings,
     RedirectURL : Strings, Scopes : {<<>>},
     StateCookie : {Nil(AuthStateCookie(""))}
                      \cup {Ptr(AuthStateCookie(s)) : s \in Secrets},
     Session : {Nil(AuthSession(""))}
                  \cup {Ptr(AuthSession(s)) : s \in Secrets}]

ApplyDefaultValues(cfg) ==
    LET OrDefault(v, default) == IF v = "" THEN default ELSE v
        cookie == IF cfg.StateCookie.isNil THEN AuthStateCookie("")
                  ELSE cfg.StateCookie.v
        session == IF cfg.Session.isNil THEN AuthSession("")
                   ELSE cfg.Session.v
    IN  [cfg EXCEPT
           !.Scopes = IF Len(cfg.Scopes) = 0 THEN <<"openid">> ELSE cfg.Scopes,
           !.StateCookie =
               Ptr([cookie EXCEPT !.Path = OrDefault(cookie.Path, "/"),
                                  !.SameSite = OrDefault(cookie.SameSite, "lax")]),
           !.Session =
               Ptr([session EXCEPT
                      !.Path = OrDefault(session.Path, "/"),
                      !.SameSite = OrDefault(session.SameSite, "lax"),
                      !.Refresh = IF session.Refresh.isNil THEN Ptr(TRUE)
                                  ELSE session.Refresh])]

\* Checks that look at the state cookie before the session.
FirstFailureStateFirst(cfg) ==
    IF cfg.Issuer = "" THEN "missing issuer"
    ELSE IF cfg.ClientID = "" THEN "missing client ID"
    ELSE IF cfg.ClientSecret = "" THEN "missing client secret"
    ELSE IF cfg.StateCookie.v.Secret = "" THEN "missing state secret"
    ELSE IF Len(cfg.StateCookie.v.Secret) \notin {16, 24, 32}
    THEN "state secret must be 16, 24 or 32 characters long"
    ELSE IF cfg.Session.v.Secret = "" THEN "missing session secret"
    ELSE IF Len(cfg.Session.v.Secret) \notin {16, 24, 32}
    THEN "session secret must be 16, 24 or 32 characters long"
    ELSE IF cfg.RedirectURL = "" THEN "missing redirect URL"
    ELSE ""

\* The error Validate returns for a configuration with its defaults
\* applied, "" for nil.
FirstFailure(cfg) ==
    IF cfg.Issuer = "" THEN "missing issuer"
    ELSE IF cfg.ClientID = "" THEN "missing client ID"
    ELSE IF cfg.ClientSecret = "" THEN "missing client secret"
    ELSE IF cfg.Session.v.Secret = "" THEN "missing session secret"
    ELSE IF Len(cfg.Session.v.Secret) \notin {16, 24, 32}
    THEN "session secret must be 16, 24 or 32 characters long"
    ELSE IF cfg.StateCookie.v.Secret = "" THEN "missing state secret"
    ELSE IF Len(cfg.StateCookie.v.Secret) \notin {16, 24, 32}
    THEN "state secret must be 16, 24 or 32 characters long"
    ELSE IF cfg.RedirectURL = "" THEN "missing redirect URL"
    ELSE ""

\* cfg.Validate(): the defaults are written into the configuration, then
\* the checks run.
Validate(given) ==
    /\ \E cfg \in {ApplyDefaultValues(given)} :
          oidc' = [called |-> TRUE, given |-> given, cfg |-> cfg,
                   err |-> FirstFailure(cfg)]
    /\ UNCHANGED <<engine, ctx, server, http, diff, policies, twin, updater>>

OIDCNext == \E cfg \in Configs : Validate(cfg)

SpecOIDC == Init /\ [][OIDCNext]_vars

(***************************************************************************)
(* The IngressUpdater (src/pkg/acp/admission/updater.go): Run receives the *)
(* names of changed policies and starts one update of the ingresses per    *)
(* name received, cancelling the update registered for the name before.    *)
(* updater.runs holds the updates started, in the order of their start:    *)
(* the name, whether the registered cancel function was called, the        *)
(* position of the goroutine, the ingresses listed, the index of the       *)
(* ingress at hand, the Update calls issued, and whether the update has    *)
(* seen its context done.  updater.callers holds the calls of Update.      *)
(***************************************************************************)
\* ctxUpd of an update is done: its cancel function was called or the
\* context of Run, from which it derives, is done.
CtxUpdDone(r) == updater.runs[r].cancelled \/ updater.ctxDone

\* Update(polName) is called and blocks sending on the unbuffered channel.
Update(polName) ==
    /\ Len(updater.callers) < MaxUpdates
    /\ updater' = [updater EXCEPT
                     !.callers = Append(@, [name |-> polName, sent |-> FALSE])]
    /\ UNCHANGED <<engine, ctx, server, http, diff, policies, twin, oidc>>

\* A Run that starts the new update without cancelling the registered one.
ReceiveKeepsRegistered(i) ==
    /\ updater.running
    /\ i \in DOMAIN updater.callers
    /\ ~updater.callers[i].sent
    /\ LET polName == updater.callers[i].name
       IN  updater' =
             [updater EXCEPT
                !.callers[i].sent = TRUE,
                !.runs = Append(updater.runs,
                                [name |-> polName, cancelled |-> FALSE,
                                 at |-> "list", len |-> 0, pos |-> 0,
                                 updates |-> 0, observed |-> FALSE]),
                !.cancelUpd[polName] = Len(updater.runs) + 1]
    /\ UNCHANGED <<engine, ctx, server, http, diff, policies, twin, oidc>>

\* Run receives the name sent by caller i, whose Update call returns: it
\* cancels and forgets the update registered for the name, registers the
\* cancel function of a new context and starts the goroutine of the update.
Receive(i) ==
    /\ updater.running
    /\ i \in DOMAIN updater.callers
    /\ ~updater.callers[i].sent
    /\ LET polName == updater.callers[i].name
           registered == updater.cancelUpd[polName]
           runs == IF registered # 0
                   THEN [updater.runs EXCEPT ![registered].cancelled = TRUE]
                   ELSE updater.runs
       IN  updater' =
             [updater EXCEPT
                !.callers[i].sent = TRUE,
                !.runs = Append(runs,
                                [name |-> polName, cancelled |-> FALSE,
                                 at |-> "list", len |-> 0, pos |-> 0,
                                 updates |-> 0, observed |-> FALSE]),
                !.cancelUpd[polName] = Len(updater.runs) + 1]
    /\ UNCHANGED <<engine, ctx, server, http, diff, policies, twin, oidc>>

\* The context of Run is cancelled.
CancelUpdater ==
    /\ ~updater.ctxDone
    /\ updater' = [updater EXCEPT !.ctxDone = TRUE]
    /\ UNCHANGED <<engine, ctx, server, http, diff, policies, twin, oidc>>

\* Run takes the ctx.Done case of its select and returns.
RunReturns ==
    /\ updater.running
    /\ updater.ctxDone
    /\ updater' = [updater EXCEPT !.running = FALSE]
    /\ UNCHANGED <<engine, ctx, server, http, diff, policies, twin, oidc>>

\* updateV1Ingresses lists the ingresses: the lister fails and the update
\* returns the error (n = -1), or it returns n ingresses.
List(r, n) ==
    /\ r \in DOMAIN updater.runs
    /\ updater.runs[r].at = "list"
    /\ updater' = [updater EXCEPT
                     !.runs[r].at = IF n < 0 THEN "returned" ELSE "select",
                     !.runs[r].len = IF n < 0 THEN 0 ELSE n,
                     !.runs[r].pos = 1]
    /\ UNCHANGED <<engine, ctx, server, http, diff, policies, twin, oidc>>

\* The head of the loop: the update returns at the end of the list, and at
\* a context that is done; otherwise the select takes its default case.
Select(r) ==
    /\ r \in DOMAIN updater.runs
    /\ updater.runs[r].at = "select"
    /\ updater' =
         IF updater.runs[r].pos > updater.runs[r].len
         THEN [updater EXCEPT !.runs[r].at = "returned"]
         ELSE IF CtxUpdDone(r)
         THEN [updater EXCEPT !.runs[r].at = "returned",
                              !.runs[r].observed = TRUE]
         ELSE [updater EXCEPT !.runs[r].at = "update"]
    /\ UNCHANGED <<engine, ctx, server, http, diff, policies, twin, oidc>>

\* The body of the loop for one ingress: shouldUpdate decides whether the
\* ingress refers to the policy, and if it does the ingress is updated with
\* ctxUpd; an error of either is logged and the loop goes on.
UpdateIngress(r, should) ==
    /\ r \in DOMAIN updater.runs
    /\ updater.runs[r].at = "update"
    /\ updater' = [updater EXCEPT
                     !.runs[r].at = "select",
                     !.runs[r].pos = @ + 1,
                     !.runs[r].updates = IF should THEN @ + 1 ELSE @]
    /\ UNCHANGED <<engine, ctx, server, http, diff, policies, twin, oidc>>

UpdaterNext ==
    \/ \E polName \in PolNames : Update(polName)
    \/ \E i \in 1..MaxUpdates : Receive(i)
    \/ CancelUpdater
    \/ RunReturns
    \/ \E r \in 1..MaxUpdates, n \in -1..MaxIngresses : List(r, n)
    \/ \E r \in 1..MaxUpdates : Select(r)
    \/ \E r \in 1..MaxUpdates, should \in BOOLEAN : UpdateIngress(r, should)

SpecUpdater == Init /\ [][UpdaterNext]_vars

(***************************************************************************)
(* Properties of Store.Write.                                              *)
(***************************************************************************)
Last(s) == s[Len(s)]
Done == pc = "idle" /\ result \in {"ok", "err"}

\* C1: a Write that starts without a version fetches before it patches, and
\* every PatchTopology call carries a version obtained from the fetch of this
\* Write or, when there was none, the version the Write started with; it is
\* never the empty version.
ColdStartFetchesFirst ==
    /\ start.version = NoVersion =>
         \A i \in DOMAIN calls :
            calls[i] = "patch" => \E j \in 1..(i - 1) : calls[j] = "fetch"
    /\ pc = "patching" =>
         /\ sent.version # NoVersion
         /\ sent.version =
              IF fetched = NoFetch THEN start.version ELSE fetched.version

\* A cold Write has fetched and is now in its PatchTopology call.
ColdStartPatching ==
    /\ pc = "patching"
    /\ start.version = NoVersion
    /\ calls = <<"fetch", "patch">>

\* C2: a failed fetch ends the Write with an error; the fetch is the last
\* call of the Write, the backoff is never entered after a fetch, the store
\* is as it was before the fetch, and the next Write begins with a fetch.
FetchFailureAborts ==
    /\ pc = "backoff" => Last(calls) = "patch"
    /\ (pc = "idle" /\ cause = "fetch") =>
         /\ result = "err"
         /\ Last(calls) = "fetch"
         /\ lastKnownVersion = NoVersion
         /\ lastTopology =
              IF Len(calls) = 1 THEN start.topology ELSE sent.base
    /\ (prev.cause = "fetch" /\ calls # <<>>) => calls[1] = "fetch"
    /\ (prev.cause = "fetch" /\ Done) => calls # <<>>

\* The Write after a failed fetch fetched and patched successfully.
PatchedAfterFetchFailure ==
    /\ prev.cause = "fetch"
    /\ Done
    /\ result = "ok"
    /\ cause = "patched"
    /\ calls = <<"fetch", "patch">>

\* C3: PatchTopology is never called with a snapshot whose encoding equals
\* the baseline; a Write that finds no difference returns success with the
\* snapshot's encoding as baseline, its last call, if any, being a fetch, and
\* after a fetch the store holds the fetched version and a baseline.
NoDiffSkipsPatch ==
    /\ pc = "patching" => sent.base # Marshal(st)
    /\ cause # "build"
    /\ (pc = "idle" /\ cause = "nodiff") =>
         /\ result = "ok"
         /\ lastTopology = Marshal(st)
         /\ calls # <<>> => Last(calls) = "fetch"
         /\ fetched # NoFetch =>
              /\ lastKnownVersion = fetched.version
              /\ lastTopology # NilBytes
              /\ lastTopology = fetched.topology

\* A Write fetched a topology equal to its snapshot and returned.
NoDiffAfterFetch ==
    /\ pc = "idle"
    /\ cause = "nodiff"
    /\ calls = <<"fetch">>
    /\ fetched.topology = Marshal(st)

\* C4: a Write that follows a successful Write and carries a byte-equal
\* snapshot issues no platform call, returns success and leaves the store as
\* it found it.
IdempotentWrite ==
    (prev.result = "ok" /\ Marshal(st) = Marshal(prev.st)) =>
        /\ calls = <<>>
        /\ pc \in {"attempt", "idle"}
        /\ pc = "idle" => result = "ok" /\ cause = "nodiff"
        /\ lastKnownVersion = start.version
        /\ lastTopology = start.topology

\* The first Write succeeded after retries and the second, with the same
\* snapshot, returned without a call.
IdempotentAfterRetries ==
    /\ Done
    /\ prev.result = "ok"
    /\ prev.retried
    /\ Marshal(st) = Marshal(prev.st)
    /\ result = "ok"
    /\ calls = <<>>

\* C5: when the PATCH exchange succeeds the Write has returned success, the
\* store holds the version of the response and the encoding of the snapshot.
PatchSucceeded == exchange.kind = "response" /\ exchange.status = StatusOK

PatchSuccessUpdatesStore ==
    PatchSucceeded =>
        /\ Done
        /\ result = "ok"
        /\ lastKnownVersion = exchange.version
        /\ lastTopology = Marshal(st)

\* A Write that started with a cached version patched and got a new version.
PatchedFromCache ==
    /\ PatchSucceeded
    /\ start.version # NoVersion
    /\ calls = <<"patch">>
    /\ lastKnownVersion # start.version

\* C6: between two consecutive PatchTopology calls of one Write there is
\* exactly one FetchTopology call.
OneFetchBetweenPatches ==
    \A i, j \in DOMAIN calls :
        ( /\ i < j
          /\ calls[i] = "patch"
          /\ calls[j] = "patch"
          /\ \A k \in (i + 1)..(j - 1) : calls[k] # "patch" ) =>
        Cardinality({k \in (i + 1)..(j - 1) : calls[k] = "fetch"}) = 1

\* Two retryable failures, each followed by one fetch, then a success.
ThirdPatchSucceeded ==
    /\ Done
    /\ result = "ok"
    /\ calls = <<"fetch", "patch", "fetch", "patch", "fetch", "patch">>

\* C7 as stated: after a retryable patch failure the store holds neither
\* baseline nor version, and the next patch of the Write is the merge patch
\* from the newly fetched topology to the snapshot, sent with the newly
\* fetched version.
Resubmitted == pc = "patching" /\ retries > 0

ResubmitsFetchedDiff ==
    Resubmitted =>
        /\ calls[Len(calls) - 1] = "fetch"
        /\ fetched # NoFetch
        /\ sent.base = fetched.topology
        /\ sent.patch = CreateMergePatch(fetched.topology, Marshal(st)).patch
        /\ sent.version = fetched.version

NonRetryableReply == reply.err.isErr /\ reply.err.api /\ ~reply.err.Retryable

FatalPatchErrorAborts ==
    /\ NonRetryableReply =>
         /\ Done
         /\ result = "err"
         /\ Last(calls) = "patch"
         /\ lastKnownVersion = NoVersion
    /\ (Done /\ cause = "fatal") => NonRetryableReply
    /\ (prev.cause = "fatal" /\ calls # <<>>) => calls[1] = "fetch"
    /\ (prev.cause = "fatal" /\ Done) => calls # <<>>

\* The Write after a non-retryable APIError fetched and patched.
PatchedAfterFatalError ==
    /\ prev.cause = "fatal"
    /\ Done
    /\ result = "ok"
    /\ calls = <<"fetch", "patch">>

\* C9: an error from PatchTopology that is not an APIError ends the Write
\* with an error without a retry; the store holds no version, and the next
\* Write fetches before anything else.
PlainReply == reply.err.isErr /\ ~reply.err.api

PlainPatchErrorAborts ==
    /\ PlainReply =>
         /\ Done
         /\ result = "err"
         /\ Last(calls) = "patch"
         /\ lastKnownVersion = NoVersion
    /\ (Done /\ cause = "plain") => PlainReply
    /\ (prev.cause = "plain" /\ calls # <<>>) => calls[1] = "fetch"
    /\ (prev.cause = "plain" /\ Done) => calls # <<>>

\* The Write after a plain patch error fetched and patched.
PatchedAfterPlainError ==
    /\ prev.cause = "plain"
    /\ Done
    /\ result = "ok"
    /\ calls = <<"fetch", "patch">>

FatalCauses == {"fetch", "build", "fatal", "plain"}

maxPatchRetry == 3

\* The PatchTopology calls the running (or last) Write has made.
PatchAttempts == Cardinality({i \in DOMAIN calls : calls[i] = "patch"})

\* C12: a Write makes at most maxPatchRetry patch attempts; when its retryable
\* failures exhaust the budget it returns an error after exactly maxPatchRetry
\* attempts and leaves the store without a version, so that the next Write
\* starts with a fetch.
RetryBudgetIsMaxPatchRetry ==
    /\ PatchAttempts <= maxPatchRetry
    /\ (Done /\ cause = "stop") =>
         /\ PatchAttempts = maxPatchRetry
         /\ lastKnownVersion = NoVersion
    /\ (prev.cause = "stop" /\ calls # <<>>) => calls[1] = "fetch"

\* The version token the store obtained last: from the fetch of this attempt
\* or, when the Write started with a version, from the Write before it.
LastToken == IF fetched # NoFetch THEN fetched.version ELSE start.version

\* A PatchTopology call carries the token obtained last, in the store's
\* argument and in the header the platform parses.
CarriesLastToken ==
    pc = "patching" =>
        /\ LastToken \in Versions
        /\ fetched = NoFetch => prev.result = "ok"
        /\ sent.version = LastToken
        /\ ParseInt(sent.header) = LastToken

\* C13 (as stated): every PatchTopology call carries the version token of the
\* most recent successful fetch or patch, and a token sent with a patch that
\* the platform rejected is not sent with a later patch.
RejectedTokenNeverResent ==
    /\ CarriesLastToken
    /\ pc = "patching" => ~sent.resent

\* C13 (amended): every PatchTopology call carries the version token of the
\* most recent successful fetch or patch; a token the platform rejected is
\* sent again only when the fetch that followed the rejection returned it.
RejectedTokenResentOnlyIfFetched ==
    /\ CarriesLastToken
    /\ (pc = "patching" /\ sent.resent) =>
         /\ Last(calls) = "patch"
         /\ calls[Len(calls) - 1] = "fetch"
         /\ fetched.version = sent.version

\* A retry is patching with the token of the rejected patch, which the
\* re-fetch returned again.
RejectedTokenResent ==
    /\ pc = "patching"
    /\ sent.resent
    /\ retries > 0
    /\ ParseInt(sent.header) = fetched.version

(***************************************************************************)
(* Properties of Store.buildPatch.                                         *)
(***************************************************************************)
\* The document without the members whose value is null.
RECURSIVE StripNulls(_)
StripNulls(doc) ==
    IF doc.t # "obj" THEN doc
    ELSE JObj([k \in {k \in DOMAIN doc.v : doc.v[k].t # "null"} |->
                StripNulls(doc.v[k])])

\* The patch sets to null a member that the new document holds.
RECURSIVE SetsNull(_, _)
SetsNull(patch, new) ==
    /\ patch.t = "obj"
    /\ new.t = "obj"
    /\ \E k \in (DOMAIN patch.v) \cap (DOMAIN new.v) :
          \/ patch.v[k].t = "null"
          \/ SetsNull(patch.v[k], new.v[k])

\* The result of applying the patch of the evaluation to its baseline.
Applied == ApplyMergePatch(diff.last, diff.patch)

CancelAbortsWrite ==
    ctx.done =>
        /\ Len(calls) = ctx.calls
        /\ pc # "attempt"
        /\ Done => result = "err"

(***************************************************************************)
(* Properties of Client.                                                   *)
(***************************************************************************)
Returned(method) == http.method = method /\ http.returned
\* The last round trip ended with a response whose status is not 200.
NotOK == http.wire.kind = "response" /\ http.wire.status # StatusOK
\* The message the claims give an APIError: the error member of the body
\* or, when the body is no JSON, the body itself.
MessageOf(body) ==
    IF body \in {"error", "code"} THEN ErrorText
    ELSE IF body = "text" THEN RawText
    ELSE ""

\* C16: one PatchTopology call sends at most one PATCH request.
PatchSentOnce == http.method = "PATCH" => http.sends <= 1

\* C17: PatchTopology returns, for every response whose status is not 200,
\* an APIError that carries the status; it is non-retryable for 400 and 422
\* and retryable for every other status.
PatchErrorCarriesStatus ==
    (Returned("PATCH") /\ NotOK) =>
        /\ http.result.err.isErr
        /\ http.result.err.api
        /\ http.result.err.StatusCode = http.wire.status
        /\ http.result.err.Retryable <=> http.wire.status \notin {400, 422}

\* C18 (as stated): FetchTopology returns a topology and a version only for
\* a 200 response; every other response gives an APIError with the status
\* of the response and the message of its body; an error comes with no
\* topology and no version.
FetchErrorCarriesStatus ==
    Returned("GET") =>
        /\ ~http.result.err.isErr =>
              http.wire.kind = "response" /\ http.wire.status = StatusOK
        /\ NotOK =>
              /\ http.result.err.api
              /\ http.result.err.StatusCode = http.wire.status
              /\ http.result.err.Message = MessageOf(http.wire.body)
        /\ http.result.err.isErr =>
              /\ http.result.topology = ZeroCluster
              /\ http.result.version = NoVersion

\* C18 (amended): FetchTopology returns a topology and a version only for a
\* 200 response with a readable encoding and a JSON body, and they are those
\* of the body.  A response with another status that the HTTP client hands
\* back (not 429, not 5xx other than 501) in a readable encoding gives an
\* APIError with the message of the body and with the status of the
\* response, or with the StatusCode member of the body when it has one.  A
\* 429 or 5xx that lasts through all RetryMax + 1 requests, and a response
\* in an unreadable encoding, give an error that is no APIError.  An error
\* comes with no topology and no version.
FetchErrorCarriesStatusIfHandedBack ==
    Returned("GET") =>
        /\ ~http.result.err.isErr =>
              /\ http.wire.kind = "response"
              /\ http.wire.status = StatusOK
              /\ http.wire.encoding \in {"identity", "gzip"}
              /\ http.wire.body # "text"
              /\ http.wire.body = "version" =>
                    /\ http.result.version = http.wire.version
                    /\ Marshal(http.result.topology) = http.wire.topology
        /\ (/\ NotOK
            /\ http.wire.status \in {400, 409, 422, 501}
            /\ http.wire.encoding \in {"identity", "gzip"}) =>
              /\ http.result.err.api
              /\ http.result.err.StatusCode =
                    IF http.wire.body = "code" THEN BodyCode
                    ELSE http.wire.status
              /\ http.result.err.Message = MessageOf(http.wire.body)
        /\ (NotOK /\ http.wire.status \in {429, 500}) =>
              /\ http.sends = RetryMax + 1
              /\ http.result.err.isErr
              /\ ~http.result.err.api
        /\ (/\ http.wire.kind = "response"
            /\ http.wire.encoding \notin {"identity", "gzip"}) =>
              /\ http.result.err.isErr
              /\ ~http.result.err.api
        /\ http.result.err.isErr =>
              /\ http.result.topology = ZeroCluster
              /\ http.result.version = NoVersion

\* FetchTopology returned an APIError for a 409 whose body is no JSON: the
\* message is the body.
FetchRefusedWithText ==
    /\ Returned("GET")
    /\ http.wire.kind = "response"
    /\ http.wire.status = 409
    /\ http.wire.body = "text"
    /\ http.result.err.api
    /\ http.result.err.StatusCode = 409
    /\ http.result.err.Message = RawText

(***************************************************************************)
(* Properties of Store.Write in front of the platform.                     *)
(***************************************************************************)
\* C14: in front of a platform whose revision only grows, the version the
\* store holds after a successful Write is not below the version it held
\* after the successful Write before it, and never above the revision of
\* the platform.
VersionsGrow ==
    /\ (Done /\ result = "ok") => lastKnownVersion >= prev.version
    /\ lastKnownVersion <= server.version

\* A Write succeeded with a higher version than the last successful Write,
\* with a failed Write between the two.
VersionGrewAfterFailure ==
    /\ Done
    /\ result = "ok"
    /\ prev.result = "err"
    /\ prev.version # NoVersion
    /\ lastKnownVersion > prev.version

(***************************************************************************)
(* Properties of the encoding of a snapshot.                               *)
(***************************************************************************)
\* The document holds, at some depth, a member that is null, an empty
\* string, an empty array or an empty object.
RECURSIVE EmitsEmpty(_)
EmitsEmpty(doc) ==
    /\ doc.t = "obj"
    /\ \E k \in DOMAIN doc.v :
          \/ doc.v[k].t = "null"
          \/ doc.v[k].t = "str" /\ doc.v[k].v = ""
          \/ doc.v[k].t = "arr" /\ DOMAIN doc.v[k].v = {}
          \/ doc.v[k].t = "obj" /\ DOMAIN doc.v[k].v = {}
          \/ EmitsEmpty(doc.v[k])

\* The snapshot with every empty map and slice replaced by an absent one.
NilIfEmptyMap(m) == IF DOMAIN m.m = {} THEN NilMap ELSE m
NilIfEmptySlice(s) == IF DOMAIN s.s = {} THEN NilSlice ELSE s
EmptyAsAbsent(c) ==
    [c EXCEPT !.Namespaces = NilIfEmptySlice(@),
              !.Ingresses = NilIfEmptyMap(@),
              !.Services =
                 IF DOMAIN @.m = {} THEN NilMap
                 ELSE GoMap([k \in DOMAIN @.m |->
                        [@.m[k] EXCEPT !.Selector = NilIfEmptyMap(@)]])]

\* C21 (as stated): the encoding of a snapshot holds no member that is null,
\* an empty string, an empty array or an empty object, and two snapshots
\* that differ only in a container being empty in one and absent in the
\* other have the same encoding.
EncoderOmitsEmpty ==
    diff # NoDiff =>
        /\ ~EmitsEmpty(Marshal(diff.st))
        /\ EmptyAsAbsent(diff.prev) = EmptyAsAbsent(diff.st) =>
              diff.last = Marshal(diff.st)

(***************************************************************************)
(* Properties of the patch that Store.buildPatch returns.                  *)
(***************************************************************************)
\* Every member of a that b lacks is null in the patch, in the documents
\* and in the objects that both of them hold.
RECURSIVE DeletesAbsent(_, _, _)
DeletesAbsent(patch, a, b) ==
    \A k \in DOMAIN a :
        IF k \notin DOMAIN b
        THEN k \in DOMAIN patch /\ patch[k] = JNull
        ELSE (a[k].t = "obj" /\ b[k].t = "obj" /\ a[k] # b[k]) =>
                /\ k \in DOMAIN patch
                /\ patch[k].t = "obj"
                /\ DeletesAbsent(patch[k].v, a[k].v, b[k].v)

\* The service of a snapshot that holds one.
HasService(c) == ~c.Services.isNil /\ ServiceKey \in DOMAIN c.Services.m
ServiceOf(c) == c.Services.m[ServiceKey]
\* The snapshot with its service replaced.
WithService(c, s) == [c EXCEPT !.Services = GoMap(ServiceKey :> s)]
\* The patch that holds one member of the service and nothing else.
ServicePatch(member, value) ==
    JObj("Services" :> JObj(ServiceKey :> JObj(member :> value)))

\* The new snapshot is the baseline without the annotations of its service.
AnnotationsRemoved ==
    /\ diff # NoDiff
    /\ HasService(diff.prev)
    /\ DOMAIN ServiceOf(diff.prev).Annotations # {}
    /\ diff.st = WithService(diff.prev,
                    [ServiceOf(diff.prev) EXCEPT !.Annotations = EmptyStrMap])

\* C22: a member that the baseline holds and the new encoding lacks is null
\* in the patch, at every depth; when the new snapshot is the baseline
\* without the annotations of its service, the patch is that one member set
\* to null under the key of the service.
DeletedFieldIsNull ==
    (diff # NoDiff /\ diff.patch # NilBytes) =>
        /\ DeletesAbsent(diff.patch.v, diff.last.v, Marshal(diff.st).v)
        /\ AnnotationsRemoved =>
              diff.patch = ServicePatch("annotations", JNull)

\* buildPatch was applied to a snapshot that drops the annotations of the
\* service of its baseline.
AnnotationsRemovedPatched ==
    /\ AnnotationsRemoved
    /\ "annotations" \in DOMAIN diff.last.v["Services"].v[ServiceKey].v
    /\ "annotations" \notin DOMAIN Marshal(diff.st).v["Services"].v[ServiceKey].v
    /\ diff.patch.v["Services"].v[ServiceKey].v["annotations"] = JNull

\* The baseline holds the service and the new snapshot, otherwise the same,
\* holds no service.
ServiceDeleted ==
    /\ diff # NoDiff
    /\ HasService(diff.prev)
    /\ DOMAIN diff.st.Services.m = {}
    /\ diff.st = [diff.prev EXCEPT !.Services = diff.st.Services,
                                   !.Overview.ServiceCount = 0]

\* C23 (as stated): when the baseline holds one service and the new snapshot
\* holds none, the patch sets the key of the service to null inside the
\* services mapping and carries the new service count, and nothing else.
DeletesEntityByKey ==
    ServiceDeleted =>
        diff.patch = JObj(("Overview" :> JObj("serviceCount" :> JNum(0)))
                       @@ ("Services" :> JObj(ServiceKey :> JNull)))

\* Every array of the patch is the array the new document holds in that
\* place.
RECURSIVE ArraysWhole(_, _)
ArraysWhole(patch, b) ==
    \A k \in DOMAIN patch :
        /\ patch[k].t = "arr" => (k \in DOMAIN b /\ patch[k] = b[k])
        /\ (patch[k].t = "obj" /\ k \in DOMAIN b /\ b[k].t = "obj") =>
              ArraysWhole(patch[k].v, b[k].v)

\* The encoding of a list of ports.
PortsArray(ports) == JArr([i \in DOMAIN ports |-> JNum(ports[i])])

\* Both snapshots hold the service and its list of ports differs.
PortsChanged ==
    /\ diff # NoDiff
    /\ HasService(diff.prev)
    /\ HasService(diff.st)
    /\ ServiceOf(diff.prev).ExternalPorts # ServiceOf(diff.st).ExternalPorts

\* C24: when the list of ports of a service changes, the patch holds under
\* the key of the service the complete new list, or null when the new list
\* is empty, and every array of a patch is the complete array of the new
\* encoding.
ArraysAreAtomic ==
    (diff # NoDiff /\ diff.patch # NilBytes) =>
        /\ ArraysWhole(diff.patch.v, Marshal(diff.st).v)
        /\ PortsChanged =>
              diff.patch.v["Services"].v[ServiceKey].v["externalPorts"] =
                 IF ServiceOf(diff.st).ExternalPorts = <<>> THEN JNull
                 ELSE PortsArray(ServiceOf(diff.st).ExternalPorts)

\* A port was added to the service of the baseline and nothing else changed:
\* the patch is the list of both ports.
PortAddedPatched ==
    /\ PortsChanged
    /\ ServiceOf(diff.prev).ExternalPorts = <<8080>>
    /\ diff.st = WithService(diff.prev,
                    [ServiceOf(diff.prev) EXCEPT !.ExternalPorts = <<8080, 8081>>])
    /\ diff.patch = ServicePatch("externalPorts", PortsArray(<<8080, 8081>>))

\* Every member of the patch is a member that one of the documents holds
\* and that is not equal in the two, in the documents and in the objects
\* that both of them hold.
RECURSIVE OnlyChanges(_, _, _)
OnlyChanges(patch, a, b) ==
    \A k \in DOMAIN patch :
        /\ k \in (DOMAIN a) \cup (DOMAIN b)
        /\ ~(k \in DOMAIN a /\ k \in DOMAIN b /\ a[k] = b[k])
        /\ (k \in DOMAIN a /\ k \in DOMAIN b /\ a[k].t = "obj" /\ b[k].t = "obj") =>
              /\ patch[k].t = "obj"
              /\ OnlyChanges(patch[k].v, a[k].v, b[k].v)

\* The new snapshot is the baseline with another value for the annotation
\* of its service.
AnnotationChanged ==
    /\ diff # NoDiff
    /\ HasService(diff.prev)
    /\ ServiceOf(diff.prev).Annotations = ("key" :> "value")
    /\ diff.st = WithService(diff.prev,
                    [ServiceOf(diff.prev) EXCEPT
                        !.Annotations = ("key" :> "new-value")])

\* C25: no member that is equal in the baseline and in the new encoding is
\* in the patch, at any depth; when the new snapshot is the baseline with
\* another value for the annotation of its service, the patch is that one
\* annotation under the key of the service.
PatchIsMinimal ==
    (diff # NoDiff /\ diff.patch # NilBytes) =>
        /\ OnlyChanges(diff.patch.v, diff.last.v, Marshal(diff.st).v)
        /\ AnnotationChanged =>
              diff.patch =
                 ServicePatch("annotations", JObj("key" :> JStr("new-value")))

\* buildPatch was applied to a snapshot that changes the annotation of the
\* service of its baseline, both holding the ports and the name of the
\* service unchanged.
AnnotationChangedPatched ==
    /\ AnnotationChanged
    /\ ServiceOf(diff.st).ExternalPorts = <<8080>>
    /\ diff.last.v["Services"].v[ServiceKey].v["name"] =
          Marshal(diff.st).v["Services"].v[ServiceKey].v["name"]
    /\ DOMAIN diff.patch.v = {"Services"}
    /\ DOMAIN diff.patch.v["Services"].v[ServiceKey].v = {"annotations"}

\* The baseline holds no service and no ingress; the new snapshot, otherwise
\* the same, holds the service and the ingress.
ServiceAndIngressAdded ==
    /\ diff # NoDiff
    /\ DOMAIN diff.prev.Services.m = {}
    /\ DOMAIN diff.prev.Ingresses.m = {}
    /\ HasService(diff.st)
    /\ IngressKey \in DOMAIN diff.st.Ingresses.m
    /\ diff.st.Namespaces = diff.prev.Namespaces

\* C26 (as stated): when the new snapshot adds a service and an ingress to a
\* baseline that holds neither, the patch holds the overview and the
\* services and not the ingress.
IngressNotInPatch ==
    ServiceAndIngressAdded =>
        /\ diff.patch # NilBytes
        /\ DOMAIN diff.patch.v = {"Overview", "Services"}

(***************************************************************************)
(* Properties of the access control policies.                              *)
(***************************************************************************)
\* The methods a specification fills in.
Variants == {"OIDC", "JWT", "BasicAuth"}
Active(spec) == {k \in Variants : ~spec[k].isNil}
\* The members of the encoding that hold a method.
VariantKeys(doc) == (DOMAIN doc.v) \cap {"oidc", "jwt", "basicAuth"}

\* C27: every policy the Watcher created or updated holds at most one of
\* OIDC, JWT and BasicAuth, whatever the ACP it was built from holds and
\* whatever the policy held before, and its encoding in the topology holds a
\* member for the method it has and none for the others.
PolicyVariantExclusive ==
    \A n \in ACPNames :
        policies.byName[n].found =>
            LET spec == policies.byName[n].Spec
                doc == MarshalAccessControlPolicy(AccessControlPolicy(n, spec))
            IN  /\ Cardinality(Active(spec)) <= 1
                /\ Cardinality(VariantKeys(doc)) <= 1
                /\ "jwt" \in VariantKeys(doc) <=> "JWT" \in Active(spec)
                /\ "basicAuth" \in VariantKeys(doc) <=> "BasicAuth" \in Active(spec)

\* The platform returned an ACP with both JWT and BasicAuth filled in: the
\* policy of the cluster holds JWT alone and so does its encoding.
TwoVariantsGivenOneKept ==
    /\ "acp-1" \in DOMAIN policies.acps
    /\ Active(policies.acps["acp-1"]) = {"JWT", "BasicAuth"}
    /\ policies.byName["acp-1"].found
    /\ ~needUpdate(policies.acps["acp-1"], policies.byName["acp-1"])
    /\ Active(policies.byName["acp-1"].Spec) = {"JWT"}
    /\ VariantKeys(MarshalAccessControlPolicy(
           AccessControlPolicy("acp-1", policies.byName["acp-1"].Spec))) = {"jwt"}

\* Every call of the last tick succeeded.
AllCallsSucceeded ==
    \A n \in ACPNames : policies.calls[n] # "none" => n \in policies.done

\* What a tick through Run's reconciliation does to a policy that is found
\* and holds the specification of its ACP: nothing.
SameSpecLeftAlone ==
    \A n \in ACPNames :
        (/\ policies.byName[n].found
         /\ n \in DOMAIN policies'.acps
         /\ policies.byName[n].Spec =
              buildAccessControlPolicySpec(policies'.acps[n])) =>
            /\ policies'.calls[n] = "none"
            /\ policies'.byName[n] = policies.byName[n]

FailedTickChangesNothing ==
    /\ [][policies'.tick \in {"fetch", "list"} =>
             /\ policies'.byName = policies.byName
             /\ \A n \in ACPNames : policies'.calls[n] = "none"
             /\ policies.ctxDone \/ policies'.running]_vars
    /\ [](~policies.running => policies.ctxDone)

\* The fetch failed on a tick while both policies existed and the watcher
\* is still running.
FetchFailedWithPoliciesKept ==
    /\ policies.tick = "fetch"
    /\ policies.running
    /\ \A n \in ACPNames : policies.byName[n].found

(***************************************************************************)
(* Properties of the store next to a store without a cache.                *)
(***************************************************************************)
\* C28 (as stated): whenever a Write has returned, it has returned nil, as
\* the Write of the store without a cache did, and the two platforms hold
\* the same topology.
CacheIsOnlyAnOptimization ==
    Done =>
        /\ result = "ok"
        /\ Unmarshal(server.topology) = Unmarshal(twin)

\* C28 (amended): the Write of the store without a cache returns nil.  A
\* Write of the store returns nil as well, unless its only call was a patch
\* at a cached version that the platform refused with 409 and its backoff
\* stopped.  After a Write that returned nil the two platforms hold the
\* same topology if the Write called the platform, or if the version of the
\* store is the revision of its platform.  They differ after a Write that
\* called nothing only when the snapshot equals the cached baseline while
\* another agent had written since: the platform of the store keeps what
\* the other agent wrote, the other platform holds the snapshot.
CacheAgreesWhileFresh ==
    Done =>
        /\ result = "err" =>
              /\ cause = "stop"
              /\ calls = <<"patch">>
              /\ start.version # NoVersion
              /\ start.version < server.version
        /\ (result = "ok" /\ (calls # <<>> \/ lastKnownVersion = server.version)) =>
              Unmarshal(server.topology) = Unmarshal(twin)
        /\ (result = "ok" /\ Unmarshal(server.topology) # Unmarshal(twin)) =>
              /\ cause = "nodiff"
              /\ lastTopology = Marshal(st)
              /\ Unmarshal(twin) = st

\* Another agent wrote between two Writes of the same snapshot: the second
\* Write called nothing and the platforms differ.
StaleCacheKeepsOtherWrite ==
    /\ Done
    /\ calls = <<>>
    /\ prev.result = "ok"
    /\ prev.st = st
    /\ lastKnownVersion < server.version
    /\ Unmarshal(twin) = st
    /\ Unmarshal(server.topology) # st

(***************************************************************************)
(* Properties of the store in front of the platform and other writers.     *)
(***************************************************************************)
\* The last Write returned nil after a patch that the platform accepted,
\* and nobody has written to the platform since.
PatchedAndUntouched ==
    /\ Done
    /\ result = "ok"
    /\ cause = "patched"
    /\ lastKnownVersion = server.version

\* C29: after a Write that returned nil once the platform accepted its
\* patch, the platform holds the snapshot of the Write until somebody else
\* writes, also when other agents wrote before the patch was accepted; and
\* every Write returns, with nil unless its backoff stopped.
Convergence ==
    /\ [](PatchedAndUntouched => Unmarshal(server.topology) = st)
    /\ [](result = "running" =>
            <>(Done /\ (result = "ok" \/ cause = "stop")))

\* A Write whose first patch met the write of another agent: it fetched
\* again, its second patch was accepted and the platform holds its
\* snapshot.
ConvergedAfterConflict ==
    /\ PatchedAndUntouched
    /\ retries > 0
    /\ Len(calls) >= 3
    /\ Unmarshal(server.topology) = st
    /\ server.accepted.to = server.version

\* C30: steady state. A Write that starts with a version in the store and
\* whose first patch is accepted makes no FetchTopology call. A FetchTopology
\* call is made only as the first call of a Write that starts without a
\* version (cold start), or directly after a patch of the same Write that
\* failed; and a Write starts without a version only when it is the first
\* one or the Write before it failed.
FetchOnlyOnColdStartOrFailedPatch ==
    /\ \A i \in DOMAIN calls :
         calls[i] = "fetch" =>
             IF i = 1 THEN start.version = NoVersion
                      ELSE calls[i - 1] = "patch"
    /\ (start.version # NoVersion /\ cause = "patched" /\ PatchAttempts = 1) =>
         calls = <<"patch">>
    /\ (pc # "idle" /\ start.version = NoVersion) =>
         \/ prev = NoWrite
         \/ prev.result # "ok"

\* A Write on a store that held a version has had its first patch accepted.
SteadyStatePatched ==
    /\ Done
    /\ result = "ok"
    /\ cause = "patched"
    /\ start.version # NoVersion
    /\ prev.result = "ok"
    /\ calls = <<"patch">>

\* The secret of a pointer to a cookie or session configuration, empty
\* when the pointer is nil.
SecretOf(p) == IF p.isNil THEN "" ELSE p.v.Secret

\* The checks of Validate on the configuration it was handed, in the order
\* of the contract: whether the check fails, and the error it stands for.
ValidateChecks ==
    LET g == oidc.given
    IN  << <<g.Issuer = "", "missing issuer">>,
           <<g.ClientID = "", "missing client ID">>,
           <<g.ClientSecret = "", "missing client secret">>,
           <<SecretOf(g.Session) = "", "missing session secret">>,
           <<Len(SecretOf(g.Session)) \notin {16, 24, 32},
             "session secret must be 16, 24 or 32 characters long">>,
           <<SecretOf(g.StateCookie) = "", "missing state secret">>,
           <<Len(SecretOf(g.StateCookie)) \notin {16, 24, 32},
             "state secret must be 16, 24 or 32 characters long">>,
           <<g.RedirectURL = "", "missing redirect URL">> >>

FailingChecks == {i \in DOMAIN ValidateChecks : ValidateChecks[i][1]}

\* C31: Validate returns the error of the first failing check, in the order
\* issuer, client ID, client secret, session secret present, session secret
\* length, state secret present, state secret length, redirect URL; it
\* returns nil exactly when no check fails.
ValidateReportsFirstFailure ==
    oidc.called =>
        /\ oidc.err = "" <=> FailingChecks = {}
        /\ FailingChecks # {} =>
             \E i \in FailingChecks :
                /\ \A j \in FailingChecks : i <= j
                /\ oidc.err = ValidateChecks[i][2]

\* A configuration with a session secret of 15 bytes, no state cookie and
\* no redirect URL was rejected for its session secret.
SessionSecretRejectedFirst ==
    /\ oidc.called
    /\ Len(SecretOf(oidc.given.Session)) = 15
    /\ oidc.given.StateCookie.isNil
    /\ oidc.given.RedirectURL = ""
    /\ oidc.err = "session secret must be 16, 24 or 32 characters long"

\* The state of the per-Write state machine the store is in: the position
\* of the running Write, and for a Write about to run the operation, whether
\* the store holds a version.
WriteState ==
    IF pc = "idle"
    THEN IF result = "ok" THEN "DONE_OK"
         ELSE IF result = "err" THEN "DONE_FATAL"
         ELSE "NEW"
    ELSE IF pc = "attempt"
    THEN IF lastKnownVersion = NoVersion THEN "NEED_FETCH" ELSE "HAVE_BASELINE"
    ELSE IF pc = "fetching" THEN "NEED_FETCH"
    ELSE IF pc = "build" THEN "HAVE_BASELINE"
    ELSE "SUBMITTING"

\* The seven transitions of the state machine.
Transitions ==
    { <<"NEED_FETCH", "HAVE_BASELINE">>, <<"NEED_FETCH", "DONE_FATAL">>,
      <<"HAVE_BASELINE", "DONE_OK">>, <<"HAVE_BASELINE", "SUBMITTING">>,
      <<"SUBMITTING", "DONE_OK">>, <<"SUBMITTING", "NEED_FETCH">>,
      <<"SUBMITTING", "DONE_FATAL">> }

\* A step of the store stays in its state, takes one of the transitions, or
\* is the call of Write, which enters NEED_FETCH or HAVE_BASELINE.
StateMachineStep ==
    \/ WriteState' = WriteState /\ pc # "idle"
    \/ <<WriteState, WriteState'>> \in Transitions
    \/ /\ pc = "idle"
       /\ WriteState' \in {"NEED_FETCH", "HAVE_BASELINE"}

\* C32: every execution of one Write is a path of the state machine: it
\* starts in NEED_FETCH or HAVE_BASELINE, takes only the seven transitions
\* and, once it has returned, is in DONE_OK or DONE_FATAL; no two fetches
\* follow each other without a patch attempt between them, and every patch
\* attempted is the non-empty difference between the baseline and the
\* snapshot.
WriteFollowsStateMachine ==
    /\ [][StateMachineStep]_vars
    /\ [](/\ (pc = "idle" /\ calls # <<>>) => WriteState \in {"DONE_OK", "DONE_FATAL"}
          /\ \A i \in DOMAIN calls :
                (i > 1 /\ calls[i] = "fetch") => calls[i - 1] = "patch"
          /\ sent # NoCall =>
                /\ sent.base # Marshal(st)
                /\ sent.patch # NilBytes
                /\ sent.patch = CreateMergePatch(sent.base, Marshal(st)).patch)

\* A Write went through NEED_FETCH, HAVE_BASELINE and SUBMITTING twice and
\* ended in DONE_OK.
WalkedTheStateMachineTwice ==
    /\ WriteState = "DONE_OK"
    /\ calls = <<"fetch", "patch", "fetch", "patch">>

\* C33: when buildPatch fails, Write returns the error of building the
\* patch at once: the step that fails ends the Write with an error, makes no
\* PatchTopology call and takes no retry, so that the last call of the
\* Write, if it made one, is the fetch whose baseline could not be diffed.
BuildFailureIsFatal ==
    /\ [][(cause' = "build" /\ pc # "idle") =>
             /\ pc' = "idle"
             /\ result' = "err"
             /\ calls' = calls
             /\ sent' = sent
             /\ retries' = retries]_vars
    /\ [](cause = "build" =>
             /\ Done
             /\ result = "err"
             /\ calls = <<>> \/ Last(calls) = "fetch"
             /\ calls = <<>> => start.version # NoVersion)

\* A Write fetched a baseline, failed to build the patch and returned the
\* error without a patch call.
BuildFailedAfterFetch ==
    /\ Done
    /\ result = "err"
    /\ cause = "build"
    /\ calls = <<"fetch">>

\* The baseline and the version the store holds were assigned by this step
\* from one response: a fetch, or a patch that succeeded, whose snapshot
\* becomes the baseline under the version the platform returned for it; or
\* the step is a failed patch, which takes the version away.
AssignedFromOneResponse ==
    \/ /\ fetched' # NoFetch
       /\ fetched = NoFetch
       /\ lastTopology' = fetched'.topology
       /\ lastKnownVersion' = fetched'.version
    \/ /\ pc = "patching"
       /\ ~reply'.err.isErr
       /\ lastTopology' = Marshal(st)
       /\ lastKnownVersion' = reply'.version
    \/ /\ pc = "patching"
       /\ reply'.err.isErr
       /\ lastTopology' = lastTopology
       /\ lastKnownVersion' = NoVersion

\* C34: the baseline a patch is diffed against and the version it is sent
\* with come from the same response.  The store changes its baseline or its
\* version only by taking both from one response or by dropping the version
\* after a failed patch; a patch is built from the pair fetched in the same
\* run of the operation, or, without a fetch, from the pair the Write
\* started with, and then it is the first patch of the Write; after a
\* failed patch the store holds no version, so that the baseline left in
\* the cache is replaced by a fetch before the next patch is built.
BaselineAndVersionFromOneResponse ==
    /\ [][(lastTopology' # lastTopology \/ lastKnownVersion' # lastKnownVersion)
             => AssignedFromOneResponse]_vars
    /\ [](/\ pc = "patching" =>
                IF fetched # NoFetch
                THEN /\ sent.base = fetched.topology
                     /\ sent.version = fetched.version
                ELSE /\ sent.base = start.topology
                     /\ sent.version = start.version
                     /\ start.version # NoVersion
                     /\ calls = <<"patch">>
          /\ pc = "backoff" => lastKnownVersion = NoVersion
          /\ (pc = "patching" /\ retries > 0) =>
                /\ calls[Len(calls) - 1] = "fetch"
                /\ sent.base = fetched.topology)

\* A retried patch was built against a fetched baseline that differs from
\* the one the failed patch had been built against.
RetriedAgainstFetchedBaseline ==
    /\ pc = "patching"
    /\ retries > 0
    /\ start.version # NoVersion
    /\ sent.base = fetched.topology
    /\ sent.base # start.topology

\* The ways a Write ends: with nil, with a fatal error of the fetch, of the
\* build or of the patch, or with the last retryable error once the backoff
\* has stopped.
EndsOfWrite ==
    Done =>
        \/ result = "ok" /\ cause \in {"nodiff", "patched"}
        \/ result = "err" /\ cause \in FatalCauses
        \/ result = "err" /\ cause = "stop"

\* C35: every Write call terminates, with success, a fatal error or the
\* exhaustion of the backoff budget: a Write that is running eventually has
\* returned, whatever the platform answers, and it takes at most MaxRetry
\* retries.
WriteTerminates ==
    /\ [](result = "running" => <>Done)
    /\ [](EndsOfWrite /\ retries <= MaxRetry)

\* A Write whose every patch attempt failed with a retryable error has
\* returned after the backoff stopped at its limit.
GaveUpAfterRetryableErrors ==
    /\ Done
    /\ cause = "stop"
    /\ retries = MaxRetry
    /\ PatchAttempts = MaxRetry + 1
    /\ reply.err.api
    /\ reply.err.Retryable

\* C36: the retry budget is per Write call.  The backoff is reset when a
\* Write starts, and the retries a Write has taken are the retryable patch
\* failures of that Write alone: one per patch attempt it has made, less
\* the attempt that is in flight, was the last before the backoff stopped,
\* or ended the Write.  What an earlier Write consumed is not counted.
BudgetIsPerWrite ==
    /\ [][pc = "idle" /\ pc' # "idle" => retries' = 0]_vars
    /\ [](/\ calls = <<>> => retries = 0
          /\ retries <= PatchAttempts
          /\ PatchAttempts <= retries + 1
          /\ pc \in {"attempt", "fetching", "build"} => retries = PatchAttempts)

\* The Write after one that exhausted its budget took the full number of
\* retries itself and succeeded.
FullBudgetAfterExhaustion ==
    /\ prev.cause = "stop"
    /\ Done
    /\ result = "ok"
    /\ retries = MaxRetry
    /\ PatchAttempts = MaxRetry + 1

(***************************************************************************)
(* Properties of the IngressUpdater.                                       *)
(***************************************************************************)
\* The updates started for a name whose cancel function was not called.
Uncancelled(polName) ==
    {r \in DOMAIN updater.runs :
        updater.runs[r].name = polName /\ ~updater.runs[r].cancelled}

Sent == {i \in DOMAIN updater.callers : updater.callers[i].sent}

\* C39: for each policy name at most one update is un-cancelled at any
\* time, and it is the one registered for the name: Run cancels the update
\* registered for a name before it starts the next one.  An update that has
\* seen its context done has returned and issues no further Update call on
\* an ingress.  A call of Update returns only by a step in which the
\* running Run loop receives its name and starts an update; once Run has
\* returned no call of Update returns.
OneUpdatePerPolicy ==
    /\ [](/\ \A polName \in PolNames :
                /\ Cardinality(Uncancelled(polName)) <= 1
                /\ \A r \in Uncancelled(polName) :
                      updater.cancelUpd[polName] = r
          /\ \A r \in DOMAIN updater.runs :
                updater.runs[r].observed =>
                    /\ updater.runs[r].at = "returned"
                    /\ CtxUpdDone(r)
          /\ Cardinality(Sent) = Len(updater.runs))
    /\ [][/\ \A r \in DOMAIN updater.runs :
                updater.runs[r].observed =>
                    updater.runs'[r].updates = updater.runs[r].updates
          /\ Sent' # Sent =>
                /\ updater.running
                /\ Len(updater.runs') = Len(updater.runs) + 1
                /\ Cardinality(Sent') = Cardinality(Sent) + 1]_vars

\* The first update of pol-1 listed an ingress, was cancelled by the second
\* and returned at its context done before any Update call; the second,
\* which is not cancelled, updated the ingress; Run has returned since.
SupersededUpdateStopped ==
    /\ Len(updater.runs) = 2
    /\ updater.runs[1].name = "pol-1"
    /\ updater.runs[2].name = "pol-1"
    /\ updater.runs[1].cancelled
    /\ updater.runs[1].observed
    /\ updater.runs[1].len = 1
    /\ updater.runs[1].updates = 0
    /\ Uncancelled("pol-1") = {2}
    /\ updater.runs[2].updates = 1
    /\ updater.runs[2].at = "returned"
    /\ ~updater.running
====
